---- MODULE Spec2Model ----
(***************************************************************************)
(* Package research pipeline of gpm: the generated "unified MCP server"    *)
(* (src/src/commands/serveMcp.ts and its deeper variant in                 *)
(* src/unnamed/part_000) with its in-memory packageCache, and the CLI      *)
(* research orchestrator with its per-ecosystem adapters                   *)
(* (src/src/utils/researchPackage.ts).                                     *)
(*                                                                         *)
(* External sources (registry endpoints, repository raw files, local       *)
(* package-manager tools) are the environment.  One request sees one       *)
(* "world": which sources answer, which HTTP sources answer with a         *)
(* non-2xx status, and which facts hold of the payloads.  Every function   *)
(* of the program is an operator of the world that returns what the        *)
(* function returns together with the ordered list of external calls it    *)
(* made.                                                                   *)
(***************************************************************************)
EXTENDS Integers, Sequences, FiniteSets, TLC

VARIABLES
    server,        \* which generated server file is running: "basic" | "deep"
    packageCache,  \* the Map of the generated server: cacheKey -> record
    disk,          \* .gpm/<package>/research.json written by the CLI
    last,          \* the last completed call and what it did
    nreq,          \* number of calls handled so far
    inflight       \* the call that is awaiting its sources, if any

vars == <<server, packageCache, disk, last, nreq, inflight>>

(***************************************************************************)
(* Bounds of the model.                                                    *)
(***************************************************************************)
MaxRequests == 2

Names == {"left-pad", "requests"}

\* type strings a client of the generated server sends (?type=...)
Types == {"auto", "node", "python", "ruby", "unknown"}

Servers == {"basic", "deep"}

(***************************************************************************)
(* External sources.                                                       *)
(***************************************************************************)
NpmViewName   == "npm view <pkg> name"
PipShow       == "pip show <pkg>"
GemInfo       == "gem info <pkg>"
NpmViewJson   == "npm view <pkg> --json"
NpmViewReadme == "npm view <pkg> readme"

\* facts about payloads
NpmJsonParses == "npm view --json prints JSON"
GemHasVersion == "gem info prints Version:"
GemHasSummary == "gem info prints Summary:"

\* A world: the sources that succeed, the HTTP sources that answer non-2xx,
\* the facts that hold of the payloads.  Every other source throws / exits
\* non-zero.  Worlds are built source by source; a fact about a payload is
\* open only where the source answers.
Nothing == [ok |-> {}, non200 |-> {}, facts |-> {}]

\* a local tool, or an endpoint whose non-2xx answer the caller does not tell
\* from an error
Tool(s, facts) ==
    {Nothing} \cup {[ok |-> {s}, non200 |-> {}, facts |-> f] : f \in SUBSET facts}

\* an endpoint read with fetch: response.ok is told from a thrown error
Http(s, facts) ==
    Tool(s, facts) \cup {[ok |-> {}, non200 |-> {s}, facts |-> {}]}

Join(A, B) ==
    { [ok |-> x.ok \cup y.ok, non200 |-> x.non200 \cup y.non200,
       facts |-> x.facts \cup y.facts] : x \in A, y \in B }

\* at most one of the files resolves: the files after the first that
\* resolves are never requested
AtMostOne(files) ==
    {Nothing} \cup {[ok |-> {f}, non200 |-> {}, facts |-> {}] : f \in files}

\* the repository files are open only in the worlds where the payload names a
\* repository
WithRepository(A, fact, files) ==
    {x \in A : fact \notin x.facts}
        \cup Join({x \in A : fact \in x.facts}, AtMostOne(files))

Out(w, s) == IF s \in w.ok THEN "ok"
             ELSE IF s \in w.non200 THEN "non200" ELSE "fail"

Call(w, s) == [src |-> s, out |-> Out(w, s)]

Holds(w, f) == f \in w.facts

\* a call whose payload the caller parses: a payload that does not parse
\* makes the step fail like an error of the call
Parsed(w, s, fact) ==
    IF Out(w, s) = "ok" /\ ~Holds(w, fact)
    THEN [src |-> s, out |-> "malformed"] ELSE Call(w, s)

(***************************************************************************)
(* Records.                                                                *)
(***************************************************************************)
EmptyObject == [f \in {} |-> ""]

\* an object with the given keys; "name" holds nm, every other key a value
\* token naming the source that supplied it
Fields(keys, src, nm) ==
    [f \in keys |-> IF f = "name" THEN nm ELSE src \o ":" \o f]

NoRecord == [metadata |-> EmptyObject, readme |-> "", type |-> "none"]

\* a call that never completed a lookup (initial value of last)
NoCalls == << >>

(***************************************************************************)
(* detectPackageType: npm, then pip, then gem, default node.               *)
(***************************************************************************)
\* the probe asking pip before npm
detectPackageTypePipFirst(packageName, w) ==
    LET c1 == Call(w, PipShow)
        c2 == Call(w, NpmViewName)
        c3 == Call(w, GemInfo)
    IN  IF c1.out = "ok" THEN [result |-> "python", calls |-> <<c1>>]
        ELSE IF c2.out = "ok" THEN [result |-> "node", calls |-> <<c1, c2>>]
        ELSE IF c3.out = "ok" THEN [result |-> "ruby", calls |-> <<c1, c2, c3>>]
        ELSE [result |-> "node", calls |-> <<c1, c2, c3>>]

\* the probe answering with the ecosystem it asked last when none is found
detectPackageTypeLastAsked(packageName, w) ==
    LET c1 == Call(w, NpmViewName)
        c2 == Call(w, PipShow)
        c3 == Call(w, GemInfo)
    IN  IF c1.out = "ok" THEN [result |-> "node", calls |-> <<c1>>]
        ELSE IF c2.out = "ok" THEN [result |-> "python", calls |-> <<c1, c2>>]
        ELSE [result |-> "ruby", calls |-> <<c1, c2, c3>>]

detectPackageType(packageName, w) ==
    LET c1 == Call(w, NpmViewName)
        c2 == Call(w, PipShow)
        c3 == Call(w, GemInfo)
    IN  IF c1.out = "ok" THEN [result |-> "node", calls |-> <<c1>>]
        ELSE IF c2.out = "ok" THEN [result |-> "python", calls |-> <<c1, c2>>]
        ELSE IF c3.out = "ok" THEN [result |-> "ruby", calls |-> <<c1, c2, c3>>]
        ELSE [result |-> "node", calls |-> <<c1, c2, c3>>]

(***************************************************************************)
(* researchPackage of the generated server (serveMcp.ts).  The result is   *)
(* [threw, rec, packageType, probe, calls]: whether the function threw to  *)
(* its caller, the record it returned, the resolved type, the calls of the *)
(* probe and the calls of the ecosystem case, in order.                    *)
(***************************************************************************)
NpmKeys == {"name", "version", "description", "license", "keywords"}
PipKeys == {"name", "version", "summary", "home-page", "author", "license"}

ReadmeFrom(s) == "README from " \o s

PlaceholderPythonReadme(packageName) ==
    "Placeholder readme for Python package " \o packageName
PlaceholderRubyReadme(packageName) ==
    "Placeholder readme for Ruby gem " \o packageName

\* metadata built by the ruby case from the lines of `gem info`
GemInfoMetadata(packageName, w) ==
    LET keys == {"name"}
                \cup (IF Holds(w, GemHasVersion) THEN {"version"} ELSE {})
                \cup (IF Holds(w, GemHasSummary) THEN {"description"} ELSE {})
    IN  Fields(keys, "gem info", packageName)

Threw(packageType, probe, calls) ==
    [threw |-> TRUE, rec |-> NoRecord, packageType |-> packageType,
     probe |-> probe, calls |-> calls]

Returned(metadata, readme, packageType, probe, calls) ==
    [threw |-> FALSE,
     rec   |-> [metadata |-> metadata, readme |-> readme, type |-> packageType],
     packageType |-> packageType, probe |-> probe, calls |-> calls]

researchPackage(packageName, type, w) ==
    LET det         == detectPackageType(packageName, w)
        probe       == IF type = "auto" THEN det.calls ELSE NoCalls
        packageType == IF type = "auto" THEN det.result ELSE type
        npmJson     == Parsed(w, NpmViewJson, NpmJsonParses)
        npmReadme   == Call(w, NpmViewReadme)
        pip         == Call(w, PipShow)
        gem         == Call(w, GemInfo)
    IN  CASE packageType = "node" ->
               IF npmJson.out # "ok"
               THEN Threw(packageType, probe, <<npmJson>>)
               ELSE Returned(Fields(NpmKeys, "npm", packageName),
                             IF npmReadme.out = "ok"
                             THEN ReadmeFrom(NpmViewReadme) ELSE "",
                             packageType, probe, <<npmJson, npmReadme>>)
          [] packageType = "python" ->
               IF pip.out # "ok"
               THEN Threw(packageType, probe, <<pip>>)
               ELSE Returned(Fields(PipKeys, "pip", packageName),
                             PlaceholderPythonReadme(packageName),
                             packageType, probe, <<pip>>)
          [] packageType = "ruby" ->
               IF gem.out # "ok"
               THEN Threw(packageType, probe, <<gem>>)
               ELSE Returned(GemInfoMetadata(packageName, w),
                             PlaceholderRubyReadme(packageName),
                             packageType, probe, <<gem>>)
          [] OTHER -> Threw(packageType, probe, NoCalls)

(***************************************************************************)
(* The deeper generated server (part_000): sources and helpers.            *)
(***************************************************************************)
NpmViewTypes     == "npm view <pkg> types typings --json"
NpmInstallTmp    == "npm install <pkg> in a temp dir"
NpmViewMain      == "npm view <pkg> main --json"
CatMain          == "cat <main file>"
PypiJson         == "GET pypi.org/pypi/<pkg>/json"
PypiStats        == "GET pypistats.org/api/packages/<pkg>/recent"
PypiPage         == "GET pypi.org/project/<pkg>/"
RubygemsApi      == "GET rubygems.org/api/v1/gems/<pkg>.json"
RubygemsPage     == "GET rubygems.org/gems/<pkg>"
GemSpecYaml      == "gem specification <pkg> --yaml"
GemWhich         == "gem which <pkg> || echo \"not found\""
GemSpecDescr     == "gem specification <pkg> description -l"

RawFile(filename) == "GET raw.githubusercontent.com/<owner>/<repo>/master/" \o filename

\* readmeFilenames of fetchPythonReadme and of fetchRubyReadme, in order
PythonReadmeFilenames == <<"README.md", "README.rst", "README.txt", "README">>
RubyReadmeFilenames ==
    <<"README.md", "README.rdoc", "README.textile", "README.txt", "README">>

NpmHasTypes        == "npm metadata has types/typings"
PypiHasDescription == "pypi json has info.description"
PypiHasGithubUrl   == "pypi json project_urls has a github.com URL"
PypiPageHasDescr   == "pypi page has a project-description div"
PipHasSummary      == "pip show prints Summary:"
GemHasGithubUrl    == "rubygems json has a github.com URL"
GemHasInfo         == "rubygems json has info"
GemPageHasDescr    == "rubygems page has a gem__desc div"

PypiKeys == {"name", "version", "description", "author", "authorEmail",
             "homepage", "license", "keywords"}
RubygemsKeys == {"name", "version", "description", "authors", "homepage",
                 "documentation", "sourceCode", "downloads"}

\* a loop over README filenames that a failing request ends
FetchReadmeFilesUntilFailure(w, filenames, i) ==
    IF i > Len(filenames) THEN [found |-> FALSE, calls |-> << >>]
    ELSE [found |-> Call(w, RawFile(filenames[i])).out = "ok",
          calls |-> <<Call(w, RawFile(filenames[i]))>>]

\* the loop over README filenames: the calls made and whether one resolved
RECURSIVE FetchReadmeFiles(_, _, _)
FetchReadmeFiles(w, filenames, i) ==
    IF i > Len(filenames) THEN [found |-> FALSE, calls |-> << >>]
    ELSE LET c == Call(w, RawFile(filenames[i]))
         IN  IF c.out = "ok" THEN [found |-> TRUE, calls |-> <<c>>]
             ELSE LET rest == FetchReadmeFiles(w, filenames, i + 1)
                  IN  [found |-> rest.found, calls |-> <<c>> \o rest.calls]

NoReadmePython(packageName) == "No README found for Python package " \o packageName
ErrorReadmePython(packageName) ==
    "Error fetching README for Python package " \o packageName
NoReadmeRuby(packageName) == "No README found for Ruby gem " \o packageName
ErrorReadmeRuby(packageName) == "Error fetching README for Ruby gem " \o packageName
SummaryNote(src) == "summary from " \o src \o " with a note that the README is missing"

\* fetchPythonReadme: [readme, calls]; it never throws
fetchPythonReadme(packageName, w) ==
    LET json  == Call(w, PypiJson)
        files == FetchReadmeFiles(w, PythonReadmeFilenames, 1)
        page  == Call(w, PypiPage)
        pip   == Call(w, PipShow)
        viaPip(before) ==
            [readme |-> IF pip.out = "ok" /\ Holds(w, PipHasSummary)
                        THEN SummaryNote(PipShow)
                        ELSE NoReadmePython(packageName),
             calls  |-> before \o <<pip>>]
        viaPage(before) ==
            IF page.out = "fail"
            THEN [readme |-> ErrorReadmePython(packageName),
                  calls  |-> before \o <<page>>]
            ELSE IF page.out = "ok" /\ Holds(w, PypiPageHasDescr)
            THEN [readme |-> ReadmeFrom(PypiPage), calls |-> before \o <<page>>]
            ELSE viaPip(before \o <<page>>)
    IN  IF json.out = "fail"
        THEN [readme |-> ErrorReadmePython(packageName), calls |-> <<json>>]
        ELSE IF json.out = "non200" THEN viaPip(<<json>>)
        ELSE IF Holds(w, PypiHasDescription)
        THEN [readme |-> ReadmeFrom(PypiJson), calls |-> <<json>>]
        ELSE IF Holds(w, PypiHasGithubUrl)
        THEN IF files.found
             THEN [readme |-> ReadmeFrom("github"),
                   calls  |-> <<json>> \o files.calls]
             ELSE viaPage(<<json>> \o files.calls)
        ELSE viaPage(<<json>>)

\* fetchRubyReadme: [readme, calls]; it never throws
fetchRubyReadme(packageName, w) ==
    LET json  == Call(w, RubygemsApi)
        files == FetchReadmeFiles(w, RubyReadmeFilenames, 1)
        page  == Call(w, RubygemsPage)
        spec  == Call(w, GemSpecDescr)
        viaPage(before) ==
            IF page.out = "ok" /\ Holds(w, GemPageHasDescr)
            THEN [readme |-> ReadmeFrom(RubygemsPage), calls |-> before \o <<page>>]
            ELSE [readme |-> IF spec.out = "ok" THEN ReadmeFrom(GemSpecDescr)
                             ELSE NoReadmeRuby(packageName),
                  calls  |-> before \o <<page, spec>>]
        viaInfo(before) ==
            IF Holds(w, GemHasInfo)
            THEN [readme |-> SummaryNote(RubygemsApi), calls |-> before]
            ELSE viaPage(before)
    IN  IF json.out = "fail"
        THEN [readme |-> ErrorReadmeRuby(packageName), calls |-> <<json>>]
        ELSE IF json.out = "non200" THEN viaPage(<<json>>)
        ELSE IF Holds(w, GemHasGithubUrl)
        THEN IF files.found
             THEN [readme |-> ReadmeFrom("github"),
                   calls  |-> <<json>> \o files.calls]
             ELSE viaInfo(<<json>> \o files.calls)
        ELSE viaInfo(<<json>>)

\* generateApiReference of the deeper server: the calls it makes; it never
\* throws
generateApiReference(packageName, type, w) ==
    LET types    == Call(w, NpmViewTypes)
        install  == Call(w, NpmInstallTmp)
        main     == Call(w, NpmViewMain)
        cat      == Call(w, CatMain)
        json     == Parsed(w, NpmViewJson, NpmJsonParses)
        analysed == IF install.out # "ok" THEN <<install>>
                    ELSE IF main.out # "ok" THEN <<install, main>>
                    ELSE <<install, main, cat>>
        spec     == Call(w, GemSpecYaml)
    IN  CASE type = "node" ->
               IF types.out # "ok" THEN <<types>>
               ELSE IF ~Holds(w, NpmHasTypes) THEN <<types, json>>
               ELSE IF cat.out = "ok" /\ Len(analysed) = 3
               THEN <<types>> \o analysed
               ELSE <<types>> \o analysed \o <<json>>
          [] type = "python" -> <<Call(w, PipShow)>>
          [] type = "ruby" ->
               IF spec.out # "ok" THEN <<spec>>
               ELSE <<spec, [src |-> GemWhich, out |-> "ok"]>>
          [] OTHER -> << >>

(***************************************************************************)
(* researchPackage of the deeper generated server (part_000): the probe,   *)
(* the metadata chain of the case, the README chain and the API reference. *)
(* The popularity and code-analysis sections that follow in each case fill *)
(* dependencies, popularityMetrics, codeAnalysis and usagePatterns, which  *)
(* the record below does not carry, and catch every error of their own.    *)
(***************************************************************************)
researchPackageDeep(packageName, type, w) ==
    LET det         == detectPackageType(packageName, w)
        probe       == IF type = "auto" THEN det.calls ELSE NoCalls
        packageType == IF type = "auto" THEN det.result ELSE type
        apiRef      == generateApiReference(packageName, packageType, w)
        \* node
        npmJson     == Parsed(w, NpmViewJson, NpmJsonParses)
        npmReadme   == Call(w, NpmViewReadme)
        \* python
        pypi        == Call(w, PypiJson)
        pip         == Call(w, PipShow)
        pyMeta      == IF pypi.out = "ok" THEN Fields(PypiKeys, "pypi", packageName)
                       ELSE IF pip.out = "ok" THEN Fields(PipKeys, "pip", packageName)
                       ELSE EmptyObject
        pyCalls     == IF pypi.out = "ok" THEN <<pypi, Call(w, PypiStats)>>
                       ELSE IF pypi.out = "non200" /\ pip.out # "ok"
                       THEN <<pypi, pip, pip>>
                       ELSE <<pypi, pip>>
        pyReadme    == fetchPythonReadme(packageName, w)
        \* ruby
        gems        == Call(w, RubygemsApi)
        gem         == Call(w, GemInfo)
        rbMeta      == IF gems.out = "ok"
                       THEN Fields(RubygemsKeys, "rubygems", packageName)
                       ELSE IF gem.out = "ok" THEN GemInfoMetadata(packageName, w)
                       ELSE EmptyObject
        rbCalls     == IF gems.out = "ok" THEN <<gems>>
                       ELSE IF gems.out = "non200" /\ gem.out # "ok"
                       THEN <<gems, gem, gem>>
                       ELSE <<gems, gem>>
        rbReadme    == fetchRubyReadme(packageName, w)
    IN  CASE packageType = "node" ->
               IF npmJson.out # "ok"
               THEN Threw(packageType, probe, <<npmJson>>)
               ELSE Returned(Fields(NpmKeys, "npm", packageName),
                             IF npmReadme.out = "ok"
                             THEN ReadmeFrom(NpmViewReadme) ELSE "",
                             packageType, probe,
                             <<npmJson, npmReadme>> \o apiRef)
          [] packageType = "python" ->
               Returned(pyMeta, pyReadme.readme, packageType, probe,
                        pyCalls \o pyReadme.calls \o apiRef)
          [] packageType = "ruby" ->
               Returned(rbMeta, rbReadme.readme, packageType, probe,
                        rbCalls \o rbReadme.calls \o apiRef)
          [] OTHER -> Threw(packageType, probe, NoCalls)

(***************************************************************************)
(* getPackageInfo: the cached lookup.  o is what the awaited               *)
(* researchPackage call produced; it is consulted on a miss only.          *)
(***************************************************************************)
cacheKey(packageName, type) == packageName \o ":" \o type

Range(f) == {f[k] : k \in DOMAIN f}

\* a Map whose set forgets the other keys
CacheSetOnly(cache, key, value) == [k \in {key} |-> value]

CacheSet(cache, key, value) ==
    [k \in DOMAIN cache \cup {key} |-> IF k = key THEN value ELSE cache[k]]

\* getPackageInfo without the lookup: every request is researched
getPackageInfoNoLookup(cache, packageName, type, forceRefresh, o) ==
    IF o.threw
    THEN [cache |-> cache, threw |-> TRUE, result |-> NoRecord, invoked |-> TRUE]
    ELSE [cache |-> CacheSet(cache, cacheKey(packageName, type), o.rec),
          threw |-> FALSE, result |-> o.rec, invoked |-> TRUE]

\* getPackageInfo deaf to forceRefresh: an entry is always served
getPackageInfoNoRefresh(cache, packageName, type, forceRefresh, o) ==
    IF cacheKey(packageName, type) \in DOMAIN cache
    THEN [cache |-> cache, threw |-> FALSE,
          result |-> cache[cacheKey(packageName, type)], invoked |-> FALSE]
    ELSE getPackageInfoNoLookup(cache, packageName, type, forceRefresh, o)

\* getPackageInfo that deletes the entry of the key when the research throws
getPackageInfoDropOnThrow(cache, packageName, type, forceRefresh, o) ==
    LET key == cacheKey(packageName, type)
    IN  IF ~forceRefresh /\ key \in DOMAIN cache
        THEN [cache |-> cache, threw |-> FALSE, result |-> cache[key],
              invoked |-> FALSE]
        ELSE IF o.threw
        THEN [cache |-> [k \in DOMAIN cache \ {key} |-> cache[k]],
              threw |-> TRUE, result |-> NoRecord, invoked |-> TRUE]
        ELSE [cache |-> CacheSet(cache, key, o.rec), threw |-> FALSE,
              result |-> o.rec, invoked |-> TRUE]

\* getPackageInfo that stores an empty record when the research throws
getPackageInfoStoreOnThrow(cache, packageName, type, forceRefresh, o) ==
    LET key == cacheKey(packageName, type)
    IN  IF ~forceRefresh /\ key \in DOMAIN cache
        THEN [cache |-> cache, threw |-> FALSE, result |-> cache[key],
              invoked |-> FALSE]
        ELSE IF o.threw
        THEN [cache |-> CacheSet(cache, key, NoRecord),
              threw |-> TRUE, result |-> NoRecord, invoked |-> TRUE]
        ELSE [cache |-> CacheSet(cache, key, o.rec), threw |-> FALSE,
              result |-> o.rec, invoked |-> TRUE]

getPackageInfo(cache, packageName, type, forceRefresh, o) ==
    LET key == cacheKey(packageName, type)
    IN  IF ~forceRefresh /\ key \in DOMAIN cache
        THEN [cache |-> cache, threw |-> FALSE, result |-> cache[key],
              invoked |-> FALSE]
        ELSE IF o.threw
        THEN [cache |-> cache, threw |-> TRUE, result |-> NoRecord,
              invoked |-> TRUE]
        ELSE [cache |-> CacheSet(cache, key, o.rec), threw |-> FALSE,
              result |-> o.rec, invoked |-> TRUE]

(***************************************************************************)
(* The worlds a request of the generated server can meet, and what         *)
(* researchPackage yields in each of them.                                 *)
(***************************************************************************)
RawFiles(filenames) == {RawFile(filenames[i]) : i \in DOMAIN filenames}

BasicWorlds(type) ==
    CASE type = "node" ->
           Join(Tool(NpmViewJson, {NpmJsonParses}), Tool(NpmViewReadme, {}))
      [] type = "python" -> Tool(PipShow, {})
      [] type = "ruby" -> Tool(GemInfo, {GemHasVersion, GemHasSummary})
      [] OTHER -> {Nothing}

DeepWorlds(type) ==
    CASE type = "node" ->
           Join(Join(Join(Tool(NpmViewJson, {NpmJsonParses}),
                          Tool(NpmViewReadme, {})),
                     Join(Tool(NpmViewTypes, {NpmHasTypes}),
                          Tool(NpmInstallTmp, {}))),
                Join(Tool(NpmViewMain, {}), Tool(CatMain, {})))
      [] type = "python" ->
           Join(Join(WithRepository(
                         Http(PypiJson, {PypiHasDescription, PypiHasGithubUrl}),
                         PypiHasGithubUrl, RawFiles(PythonReadmeFilenames)),
                     Http(PypiPage, {PypiPageHasDescr})),
                Join(Tool(PipShow, {PipHasSummary}), Tool(PypiStats, {})))
      [] type = "ruby" ->
           Join(Join(WithRepository(
                         Http(RubygemsApi, {GemHasGithubUrl, GemHasInfo}),
                         GemHasGithubUrl, RawFiles(RubyReadmeFilenames)),
                     Tool(RubygemsPage, {GemPageHasDescr})),
                Join(Join(Tool(GemInfo, {GemHasVersion, GemHasSummary}),
                          Tool(GemSpecDescr, {})),
                     Tool(GemSpecYaml, {})))
      [] OTHER -> {Nothing}

\* the probe's sources that the case of the type does not itself consult
ProbeOnly(srv, type) ==
    CASE type = "node" ->
           Join(Tool(NpmViewName, {}), Join(Tool(PipShow, {}), Tool(GemInfo, {})))
      [] type = "python" -> Join(Tool(NpmViewName, {}), Tool(GemInfo, {}))
      [] type = "ruby" -> Join(Tool(NpmViewName, {}), Tool(PipShow, {}))

TypeWorlds(srv, type) ==
    IF srv = "basic" THEN BasicWorlds(type) ELSE DeepWorlds(type)

ServerWorlds(srv, type) ==
    IF type = "auto"
    THEN UNION { Join(TypeWorlds(srv, t), ProbeOnly(srv, t)) :
                 t \in {"node", "python", "ruby"} }
    ELSE TypeWorlds(srv, type)

researchOn(srv, packageName, type, w) ==
    IF srv = "basic" THEN researchPackage(packageName, type, w)
    ELSE researchPackageDeep(packageName, type, w)

\* every call of researchPackage a request can make, with what it yields
ResearchOutcomes ==
    UNION { { [srv |-> srv, name |-> n, type |-> t, o |-> researchOn(srv, n, t, w)] :
                w \in ServerWorlds(srv, t) }
            : srv \in Servers, n \in Names, t \in Types }

\* what a request keeps of a call of researchPackage: whether it threw, the
\* record, the probe's calls, and whether any source of the case answered
Digest(o) ==
    [threw |-> o.threw, rec |-> o.rec, packageType |-> o.packageType,
     probe |-> o.probe,
     tried |-> Len(o.calls) > 0,
     answered |-> \E i \in DOMAIN o.calls : o.calls[i].out = "ok"]

\* The requests of the server are served under a few conditions of the
\* machine: each family of sources is reachable as a whole or not at all, and
\* what a reachable source answers is well formed.
NpmSources ==
    {NpmViewName, NpmViewJson, NpmViewReadme, NpmViewTypes, NpmInstallTmp,
     NpmViewMain, CatMain}
PipSources == {PipShow}
PypiSources == {PypiJson, PypiStats, PypiPage} \cup RawFiles(PythonReadmeFilenames)
GemSources == {GemInfo, GemSpecYaml, GemWhich, GemSpecDescr}
RubygemsSources == {RubygemsApi, RubygemsPage} \cup RawFiles(RubyReadmeFilenames)

Families == {NpmSources, PipSources, PypiSources, GemSources, RubygemsSources}

AllFacts ==
    {NpmJsonParses, GemHasVersion, GemHasSummary, NpmHasTypes,
     PypiHasDescription, PypiHasGithubUrl, PypiPageHasDescr, PipHasSummary,
     GemHasGithubUrl, GemHasInfo, GemPageHasDescr}

Conditions ==
    { [ok |-> UNION reachable, non200 |-> {}, facts |-> AllFacts] :
        reachable \in SUBSET Families }

ServerOutcomes ==
    UNION { { [srv |-> srv, name |-> n, type |-> t,
               o |-> Digest(researchOn(srv, n, t, w))] : w \in Conditions }
            : srv \in Servers, n \in Names, t \in Types }

(***************************************************************************)
(* The routes of the generated server.  Each awaits getPackageInfo and     *)
(* answers 200 with a view of the record, or 500 when it threw.            *)
(***************************************************************************)
NoLast ==
    [op |-> "none", name |-> "", type |-> "", refresh |-> FALSE, status |-> 0,
     body |-> NoRecord, prior |-> NoRecord, invoked |-> FALSE, threw |-> FALSE, probe |-> NoCalls,
     packageType |-> "none", tried |-> FALSE, answered |-> FALSE]

\* no call is awaiting a source
Idle == [fn |-> "none"]

ErrorBody(message, packageName) == [error |-> message \o packageName]

Respond(op, packageName, type, forceRefresh, o, view, message) ==
    LET r == getPackageInfo(packageCache, packageName, type, forceRefresh, o)
    IN  /\ packageCache' = r.cache
        /\ last' = [op |-> op, name |-> packageName, type |-> type,
                    refresh |-> forceRefresh,
                    status |-> IF r.threw THEN 500 ELSE 200,
                    body |-> IF r.threw THEN ErrorBody(message, packageName)
                             ELSE view[r.result],
                    prior |-> IF cacheKey(packageName, type) \in DOMAIN packageCache
                              THEN packageCache[cacheKey(packageName, type)]
                              ELSE NoRecord,
                    invoked |-> r.invoked,
                    threw |-> r.threw,
                    probe |-> IF r.invoked THEN o.probe ELSE NoCalls,
                    packageType |-> IF r.invoked THEN o.packageType ELSE "none",
                    tried |-> r.invoked /\ o.tried,
                    answered |-> r.invoked /\ o.answered]
        /\ nreq' = nreq + 1
        /\ UNCHANGED <<server, disk, inflight>>

ContextView(packageInfo) ==
    [package |-> packageInfo.metadata, readme |-> packageInfo.readme,
     languageType |-> packageInfo.type]

ExamplesView(packageInfo) == [documentation |-> packageInfo.readme]

\* GET /api/package/:packageName?type=&refresh=
ApiPackage ==
    /\ nreq < MaxRequests
    /\ \E x \in ServerOutcomes, forceRefresh \in BOOLEAN :
         /\ x.srv = server
         /\ Respond("package", x.name, x.type, forceRefresh, x.o,
                    [r \in {x.o.rec} \cup Range(packageCache) |-> r],
                    "Failed to get package info for ")

\* GET /api/context/:packageName?type=&refresh=
ApiContext ==
    /\ nreq < MaxRequests
    /\ \E x \in ServerOutcomes, forceRefresh \in BOOLEAN :
         /\ x.srv = server
         /\ Respond("context", x.name, x.type, forceRefresh, x.o,
                    [r \in {x.o.rec} \cup Range(packageCache) |-> ContextView(r)],
                    "Failed to get context for ")

\* GET /api/examples/:packageName?type=   (never refreshes)
ApiExamples ==
    /\ nreq < MaxRequests
    /\ \E x \in ServerOutcomes :
         /\ x.srv = server
         /\ Respond("examples", x.name, x.type, FALSE, x.o,
                    [r \in {x.o.rec} \cup Range(packageCache) |-> ExamplesView(r)],
                    "Failed to get examples for ")

Init ==
    /\ server \in Servers
    /\ packageCache = EmptyObject
    /\ disk = EmptyObject
    /\ last = NoLast
    /\ nreq = 0
    /\ inflight = Idle

Next == ApiPackage \/ ApiContext \/ ApiExamples

Spec == Init /\ [][Next]_vars

(***************************************************************************)
(* The command-line research (utils/researchPackage.ts).  An adapter       *)
(* yields [threw, rec, calls, primaryReadme]: rec is the Research it       *)
(* returned, calls the sources it consulted in order, primaryReadme        *)
(* whether the registry API of the ecosystem answered with a README in     *)
(* its payload.  exampleCode, apiDocs and additionalResources are derived  *)
(* from the payloads already fetched and are not carried.                  *)
(***************************************************************************)
Registry         == "GET registry.npmjs.org/<pkg>"
GemInfoRemote    == "gem info <pkg> --remote"
GemSpecification == "gem specification <pkg>"
GithubReadme     == RawFile("README.md")

RegHasReadme         == "registry json has readme"
RegHasGithubRepo     == "registry json repository is a github.com URL"
GemRemotePrintsGem   == "gem info --remote prints the gem, no ERROR"
GemRemoteHasVersion  == "gem info --remote prints (version)"
GemRemoteHasSummary  == "gem info --remote prints an indented line"
RubygemsEmbedsReadme == "rubygems json has a readme"

ProjectTypes == {"node", "python", "ruby", "unknown"}

RegistryKeys == {"name", "description", "version", "homepage", "repository",
                 "bugs", "license", "author", "keywords", "main", "types"}
CliPypiKeys == {"name", "version", "summary", "homepage", "author", "license"}
CliPipKeys == {"name", "version", "summary", "homepage", "author",
               "authorEmail", "license", "location", "requires"}

Research(packageInfo, readme, packageType) ==
    [packageInfo |-> packageInfo, readme |-> readme, packageType |-> packageType]

\* { packageInfo: { name: packageName }, readme: '', packageType }
Minimal(packageName, packageType) ==
    Research([name |-> packageName], "", packageType)

\* The text of a README is not carried by the records; whether it holds a
\* fenced block with content is a fact of the payload it came in.
Fenced(readme) == "fenced block in " \o readme
FencedReadmes ==
    {Fenced(ReadmeFrom(s)) : s \in {Registry, GithubReadme, PypiJson, PypiPage}}
HasFence(readme, w) == readme # "" /\ Holds(w, Fenced(readme))

\* extractExampleCode(readme) on such a README: the content of its block
ExamplesOf(readme, w) ==
    IF HasFence(readme, w) THEN <<"example in " \o readme>> ELSE << >>

\* a result object written without an exampleCode property
NoExampleCode == << >>

AdapterThrew(calls) ==
    [threw |-> TRUE, rec |-> Research(EmptyObject, "", "none"), calls |-> calls,
     primaryReadme |-> FALSE, exampleCode |-> NoExampleCode,
     readmeFenced |-> FALSE]

AdapterReturned(rec, calls, primaryReadme, exampleCode, w) ==
    [threw |-> FALSE, rec |-> rec, calls |-> calls,
     primaryReadme |-> primaryReadme, exampleCode |-> exampleCode,
     readmeFenced |-> HasFence(rec.readme, w)]

\* axios.get rejects on a network error and on a non-2xx status alike
Answered(c) == c.out = "ok"

researchNpmPackage(packageName, w) ==
    LET reg  == Call(w, Registry)
        gh   == Call(w, GithubReadme)
        info == Fields(RegistryKeys, "registry", packageName)
    IN  IF ~Answered(reg) THEN AdapterThrew(<<reg>>)
        ELSE IF Holds(w, RegHasReadme)
        THEN AdapterReturned(Research(info, ReadmeFrom(Registry), "node"),
                             <<reg>>, TRUE,
                             ExamplesOf(ReadmeFrom(Registry), w), w)
        ELSE IF Holds(w, RegHasGithubRepo)
        THEN AdapterReturned(
                 Research(info,
                          IF Answered(gh) THEN ReadmeFrom(GithubReadme) ELSE "",
                          "node"),
                 <<reg, gh>>, FALSE,
                 ExamplesOf(IF Answered(gh) THEN ReadmeFrom(GithubReadme)
                            ELSE "", w), w)
        ELSE AdapterReturned(Research(info, "", "node"), <<reg>>, FALSE,
                             ExamplesOf("", w), w)

\* getPythonPackageInfo (pythonInstall.ts): [threw, info, calls]
getPythonPackageInfo(packageName, w) ==
    LET pip == Call(w, PipShow)
    IN  [threw |-> ~Answered(pip),
         info  |-> Fields(CliPipKeys, "pip", packageName),
         calls |-> <<pip>>]

\* pypiData.info.project_urls is read without a guard: a payload without
\* info throws inside the try of the JSON endpoint
PypiHasInfo == "pypi json has info"

researchPythonPackage(packageName, w) ==
    LET pypi == Parsed(w, PypiJson, PypiHasInfo)
        pip  == getPythonPackageInfo(packageName, w)
        page == Call(w, PypiPage)
    IN  IF Answered(pypi)
        THEN AdapterReturned(
                 Research(Fields(CliPypiKeys, "pypi", packageName),
                          IF Holds(w, PypiHasDescription)
                          THEN ReadmeFrom(PypiJson) ELSE "",
                          "python"),
                 <<pypi>>, Holds(w, PypiHasDescription),
                 ExamplesOf(IF Holds(w, PypiHasDescription)
                            THEN ReadmeFrom(PypiJson) ELSE "", w), w)
        ELSE IF ~pip.threw
        THEN AdapterReturned(Research(pip.info, "", "python"),
                             <<pypi>> \o pip.calls, FALSE, NoExampleCode, w)
        ELSE IF Answered(page)
        THEN AdapterReturned(
                 Research([name |-> packageName,
                           description |->
                               IF Holds(w, PypiPageHasDescr)
                               THEN "first 200 characters of " \o ReadmeFrom(PypiPage) \o "..."
                               ELSE "..."],
                          IF Holds(w, PypiPageHasDescr)
                          THEN ReadmeFrom(PypiPage) ELSE "",
                          "python"),
                 <<pypi>> \o pip.calls \o <<page>>, FALSE, NoExampleCode, w)
        ELSE AdapterReturned(Minimal(packageName, "python"),
                             <<pypi>> \o pip.calls \o <<page>>, FALSE,
                             NoExampleCode, w)

Merge(a, b) ==
    [k \in DOMAIN a \cup DOMAIN b |-> IF k \in DOMAIN a THEN a[k] ELSE b[k]]

\* getRubyGemInfo (rubyInstall.ts): [threw, info, calls].  `gem
\* specification` runs whenever `gem info --remote` printed the gem; its
\* failure is ignored.
getRubyGemInfo(gemName, w) ==
    LET remote == Parsed(w, GemInfoRemote, GemRemotePrintsGem)
        spec   == Call(w, GemSpecification)
        keys   == {"name"}
                  \cup (IF Holds(w, GemRemoteHasVersion) THEN {"version"} ELSE {})
                  \cup (IF Holds(w, GemRemoteHasSummary) THEN {"summary"} ELSE {})
        parsed == Fields(keys, "gem info", gemName)
    IN  IF ~Answered(remote)
        THEN [threw |-> TRUE, info |-> EmptyObject, calls |-> <<remote>>]
        ELSE [threw |-> FALSE,
              info  |-> IF Answered(spec)
                        THEN Merge(parsed,
                                   Fields({"homepage", "authors", "license"},
                                          "gem specification", gemName))
                        ELSE parsed,
              calls |-> <<remote, spec>>]

researchRubyPackage(packageName, w) ==
    LET gem    == getRubyGemInfo(packageName, w)
        api    == Call(w, RubygemsApi)
        gh     == Call(w, GithubReadme)
        gemData == Fields({"version", "summary", "homepage"}, "rubygems",
                          packageName)
        embeds == Holds(w, RubygemsEmbedsReadme)
    IN  IF ~gem.threw
        THEN IF Answered(api)
             THEN IF Holds(w, GemHasGithubUrl)
                  THEN AdapterReturned(
                           Research(Merge(gem.info, gemData),
                                    IF Answered(gh)
                                    THEN ReadmeFrom(GithubReadme) ELSE "",
                                    "ruby"),
                           gem.calls \o <<api, gh>>, embeds,
                           ExamplesOf(IF Answered(gh)
                                      THEN ReadmeFrom(GithubReadme) ELSE "", w),
                           w)
                  ELSE AdapterReturned(
                           Research(Merge(gem.info, gemData), "", "ruby"),
                           gem.calls \o <<api>>, embeds, ExamplesOf("", w), w)
             ELSE AdapterReturned(Research(gem.info, "", "ruby"),
                                  gem.calls \o <<api>>, FALSE,
                                  NoExampleCode, w)
        ELSE IF Answered(api)
        THEN AdapterReturned(
                 Research(Merge([name |-> packageName], gemData), "", "ruby"),
                 gem.calls \o <<api>>, embeds, NoExampleCode, w)
        ELSE AdapterReturned(Minimal(packageName, "ruby"),
                             gem.calls \o <<api>>, FALSE, NoExampleCode, w)

Adapter(packageType, packageName, w) ==
    CASE packageType = "python" -> researchPythonPackage(packageName, w)
      [] packageType = "ruby" -> researchRubyPackage(packageName, w)
      [] OTHER -> researchNpmPackage(packageName, w)

\* saveResearchData: research.json is rewritten, README.md only when the
\* readme is not empty; a failing file system is logged and swallowed.
NoFile == "(no file)"

saveResearchData(files, packageName, research, writable) ==
    IF ~writable THEN files
    ELSE LET old == IF packageName \in DOMAIN files
                    THEN files[packageName].readmeFile ELSE NoFile
             dir == [research   |-> research,
                     readmeFile |-> IF research.readme # ""
                                    THEN research.readme ELSE old]
         IN  [k \in DOMAIN files \cup {packageName} |->
                 IF k = packageName THEN dir ELSE files[k]]

\* researchPackage whose save lets its failure out: the catch of
\* researchPackage answers it with the minimal record
cliResearchPackageSaveThrows(files, packageName, packageType, r, writable) ==
    IF r.threw \/ ~writable
    THEN [threw |-> FALSE, rec |-> Minimal(packageName, packageType),
          calls |-> r.calls, caught |-> TRUE, files |-> files,
          exampleCode |-> NoExampleCode, readmeFenced |-> FALSE]
    ELSE LET research == Research(r.rec.packageInfo, r.rec.readme, packageType)
         IN  [threw |-> FALSE, rec |-> research, calls |-> r.calls,
              caught |-> FALSE,
              exampleCode |-> r.exampleCode, readmeFenced |-> r.readmeFenced,
              files |-> saveResearchData(files, packageName, research,
                                         writable)]

\* researchPackage of the command line: [threw, rec, calls, caught, files];
\* r is what the awaited adapter produced
cliResearchPackage(files, packageName, packageType, r, writable) ==
    IF r.threw
    THEN [threw |-> FALSE, rec |-> Minimal(packageName, packageType),
          calls |-> r.calls, caught |-> TRUE, files |-> files,
          exampleCode |-> NoExampleCode, readmeFenced |-> FALSE]
    ELSE LET research == Research(r.rec.packageInfo, r.rec.readme, packageType)
         IN  [threw |-> FALSE, rec |-> research, calls |-> r.calls,
              caught |-> FALSE,
              \* exampleCode = result.exampleCode || []
              exampleCode |-> r.exampleCode, readmeFenced |-> r.readmeFenced,
              files |-> saveResearchData(files, packageName, research,
                                         writable)]

\* the answers the command line's sources can give
CliWorlds(packageType) ==
    CASE packageType = "python" ->
           Join(Join({x \in Http(PypiJson, {PypiHasInfo, PypiHasDescription,
                                             Fenced(ReadmeFrom(PypiJson))}) :
                         PypiHasInfo \in x.facts \/ x.facts = {}},
                     Tool(PipShow, {})),
                Http(PypiPage, {PypiPageHasDescr,
                                Fenced(ReadmeFrom(PypiPage))}))
      [] packageType = "ruby" ->
           Join(Join({Nothing}
                     \cup Join(Tool(GemInfoRemote,
                                    {GemRemotePrintsGem, GemRemoteHasVersion,
                                     GemRemoteHasSummary}) \ {Nothing},
                               Tool(GemSpecification, {})),
                     Http(RubygemsApi, {GemHasGithubUrl, RubygemsEmbedsReadme})),
                Http(GithubReadme, {Fenced(ReadmeFrom(GithubReadme))}))
      [] OTHER ->
           Join(Http(Registry, {RegHasReadme, RegHasGithubRepo,
                                Fenced(ReadmeFrom(Registry))}),
                Http(GithubReadme, {Fenced(ReadmeFrom(GithubReadme))}))

(***************************************************************************)
(* The functions called one at a time, each under every answer of its      *)
(* sources; last keeps what the call returned and the calls it made.       *)
(***************************************************************************)
ProbeWorlds ==
    Join(Tool(NpmViewName, {}), Join(Tool(PipShow, {}), Tool(GemInfo, {})))

ProbeOutcomes ==
    { [op |-> "detectPackageType", name |-> n,
       result |-> detectPackageType(n, w).result,
       calls |-> detectPackageType(n, w).calls,
       succeed |-> w.ok] : n \in Names, w \in ProbeWorlds }

AdapterOutcomes ==
    UNION { { [op |-> "adapter", layer |-> "cli", name |-> n, type |-> t]
              @@ Adapter(t, n, w) : w \in CliWorlds(t) }
            : n \in Names, t \in {"node", "python", "ruby"} }

\* the answers of a repository to the requests for README files: each file
\* resolves, answers non-2xx or fails, whatever the others do
RECURSIVE FileWorlds(_, _)
FileWorlds(filenames, i) ==
    IF i > Len(filenames) THEN {Nothing}
    ELSE Join(Http(RawFile(filenames[i]), {}), FileWorlds(filenames, i + 1))

\* the registry names a repository on github.com and embeds no description
ReadmeWorlds(type) ==
    IF type = "python"
    THEN Join({[ok |-> {PypiJson}, non200 |-> {}, facts |-> {PypiHasGithubUrl}]},
              FileWorlds(PythonReadmeFilenames, 1))
    ELSE Join({[ok |-> {RubygemsApi}, non200 |-> {}, facts |-> {GemHasGithubUrl}]},
              FileWorlds(RubyReadmeFilenames, 1))

fetchReadme(packageName, type, w) ==
    IF type = "python" THEN fetchPythonReadme(packageName, w)
    ELSE fetchRubyReadme(packageName, w)

ReadmeOutcomes ==
    UNION { { [op |-> "fetchReadme", layer |-> "deep", name |-> n,
               packageType |-> t] @@ fetchReadme(n, t, w) :
                w \in ReadmeWorlds(t) }
            : n \in Names, t \in {"python", "ruby"} }

\* detectPackageType(packageName)
Probe ==
    /\ \E x \in ProbeOutcomes : last' = x
    /\ UNCHANGED <<server, packageCache, disk, nreq, inflight>>

\* researchPackage(packageName, type) of the generated server
ServerResearch ==
    /\ \E x \in ResearchOutcomes :
         /\ x.srv = server
         /\ last' = [op |-> "researchPackage", layer |-> x.srv,
                     name |-> x.name, type |-> x.type] @@ x.o
    /\ UNCHANGED <<server, packageCache, disk, nreq, inflight>>

\* researchNpmPackage / researchPythonPackage / researchRubyPackage
CliAdapter ==
    /\ \E x \in AdapterOutcomes : last' = x
    /\ UNCHANGED <<server, packageCache, disk, nreq, inflight>>

\* fetchPythonReadme(packageName) / fetchRubyReadme(packageName)
FetchReadme ==
    /\ \E x \in ReadmeOutcomes : last' = x
    /\ UNCHANGED <<server, packageCache, disk, nreq, inflight>>

NextAdapters == Probe \/ ServerResearch \/ CliAdapter \/ FetchReadme

SpecAdapters == Init /\ [][NextAdapters]_vars

(***************************************************************************)
(* The command line's researchPackage, which saves under .gpm/.            *)
(***************************************************************************)
\* as for the server, each family of sources is reachable as a whole or not
\* at all and the answers are well formed; the registries either embed the
\* README or leave it to the repository
CliFamilies ==
    {{Registry}, {GithubReadme}, {PypiJson}, {PypiPage}, {PipShow},
     {GemInfoRemote, GemSpecification}, {RubygemsApi}}

CliFacts ==
    {RegHasGithubRepo, PypiHasInfo, PypiPageHasDescr, GemRemotePrintsGem,
     GemRemoteHasVersion, GemRemoteHasSummary, GemHasGithubUrl}

CliConditions ==
    { [ok |-> UNION reachable, non200 |-> {},
       facts |-> CliFacts \cup embedded \cup fenced] :
        reachable \in SUBSET CliFamilies,
        embedded \in {{}, {RegHasReadme, PypiHasDescription}},
        fenced \in {{}, FencedReadmes} }

CliOutcomes ==
    UNION { { [name |-> n, type |-> t, r |-> Adapter(t, n, w)] :
              w \in CliConditions }
            : n \in Names, t \in ProjectTypes }

CliResearch ==
    /\ nreq < MaxRequests
    /\ \E x \in CliOutcomes, writable \in BOOLEAN :
           LET r == cliResearchPackage(disk, x.name, x.type, x.r, writable)
           IN  /\ disk' = r.files
               /\ last' = [op |-> "cli researchPackage", name |-> x.name,
                           type |-> x.type, threw |-> r.threw, rec |-> r.rec,
                           calls |-> r.calls, caught |-> r.caught,
                           exampleCode |-> r.exampleCode,
                           readmeFenced |-> r.readmeFenced,
                           writable |-> writable]
    /\ nreq' = nreq + 1
    /\ UNCHANGED <<server, packageCache, inflight>>

NextCli == CliResearch

SpecCli == Init /\ [][NextCli]_vars

(***************************************************************************)
(* Calls in flight.  A function awaits its sources one after another; a    *)
(* source that never responds leaves the await pending unless the call was *)
(* given a timeout, in which case it is rejected like a failure.  plan is  *)
(* the sequence of calls the function makes when the sources that never    *)
(* respond count as failed; hung are those among them it reaches.          *)
(***************************************************************************)
MaxHung == 1

\* execAsync(..., { timeout: 60000 }) is the only call given a timeout
HasTimeout(src) == src = NpmInstallTmp

SourcesOf(calls) == {calls[i].src : i \in DOMAIN calls}

\* the sources that may be the ones that never respond: those the function
\* reaches and finds failing
NeverRespond(calls) ==
    { h \in SUBSET {calls[i].src : i \in {j \in DOMAIN calls : calls[j].out = "fail"}} :
        Cardinality(h) <= MaxHung }

Runs(fn, layer, packageName, type, calls, threw) ==
    { [fn |-> fn, layer |-> layer, name |-> packageName, type |-> type,
       plan |-> calls, pos |-> 0, threw |-> threw, hung |-> h] :
        h \in NeverRespond(calls) }

ProbeRuns ==
    UNION { Runs("detectPackageType", "server", n, "auto",
                 detectPackageType(n, w).calls, FALSE)
            : n \in Names, w \in ProbeWorlds }

AdapterRunsOf(t) ==
    UNION { Runs("adapter", "cli", n, t, Adapter(t, n, w).calls,
                 Adapter(t, n, w).threw)
            : n \in Names, w \in CliWorlds(t) }

AdapterRuns == UNION { AdapterRunsOf(t) : t \in {"node", "python", "ruby"} }

ServerRuns ==
    UNION { Runs("researchPackage", srv, n, t,
                 researchOn(srv, n, t, w).probe \o researchOn(srv, n, t, w).calls,
                 researchOn(srv, n, t, w).threw)
            : srv \in Servers, n \in Names, t \in Types, w \in Conditions }

\* detectPackageType(packageName) is called
StartProbe ==
    /\ inflight = Idle
    /\ \E r \in ProbeRuns : inflight' = r
    /\ UNCHANGED <<server, packageCache, disk, last, nreq>>

\* researchPackage(packageName, type) of the server, or an adapter of the
\* command line, is called
StartResearch ==
    /\ inflight = Idle
    /\ \E r \in AdapterRuns \cup ServerRuns :
         /\ r.layer \in {"cli", server}
         /\ inflight' = r
    /\ UNCHANGED <<server, packageCache, disk, last, nreq>>

\* the pending call settles: the source answers, fails, or its timeout fires
Await ==
    /\ inflight # Idle
    /\ inflight.pos < Len(inflight.plan)
    /\ LET src == inflight.plan[inflight.pos + 1].src
       IN  src \notin inflight.hung \/ HasTimeout(src)
    /\ inflight' = [inflight EXCEPT !.pos = @ + 1]
    /\ UNCHANGED <<server, packageCache, disk, last, nreq>>

\* the function returns (or throws) to its caller
Return ==
    /\ inflight # Idle
    /\ inflight.pos = Len(inflight.plan)
    /\ last' = [op |-> "returned", fn |-> inflight.fn, layer |-> inflight.layer,
                threw |-> inflight.threw]
    /\ inflight' = Idle
    /\ UNCHANGED <<server, packageCache, disk, nreq>>

NextRun == StartProbe \/ StartResearch \/ Await \/ Return

\* a settled promise resumes its awaiting function: the event loop runs every
\* continuation that is ready
SpecRun == Init /\ [][NextRun]_vars /\ WF_vars(Await) /\ WF_vars(Return)

(***************************************************************************)
(* Properties of the cache (getPackageInfo).                               *)
(***************************************************************************)
Served == nreq' = nreq + 1

View(op, packageInfo) ==
    CASE op = "context" -> ContextView(packageInfo)
      [] op = "examples" -> ExamplesView(packageInfo)
      [] OTHER -> packageInfo

KeyOf(l) == cacheKey(l.name, l.type)

\* C1: a request whose key has an entry, asked without refresh, answers the
\* stored record, calls neither researchPackage nor any source, and leaves
\* the cache as it was.
C1_HitStep ==
    (Served /\ ~last'.refresh /\ KeyOf(last') \in DOMAIN packageCache)
        => /\ last'.status = 200
           /\ last'.body = View(last'.op, packageCache[KeyOf(last')])
           /\ ~last'.invoked
           /\ last'.probe = NoCalls
           /\ ~last'.tried
           /\ packageCache' = packageCache

C1_CacheHitSkipsAdapter == [][C1_HitStep]_vars

C1_Witness ==
    /\ last.op = "package"
    /\ ~last.refresh
    /\ last.prior # NoRecord
    /\ ~last.invoked
    /\ last.body = last.prior

\* C2: a request with refresh calls researchPackage even when its key has an
\* entry; when the research returns, the entry of the key becomes the new
\* record, the other entries stay, and the new record is what is answered.
C2_RefreshStep ==
    (Served /\ last'.refresh)
        => /\ last'.invoked
           /\ last'.status = 200 =>
                /\ DOMAIN packageCache' = DOMAIN packageCache \cup {KeyOf(last')}
                /\ last'.body = View(last'.op, packageCache'[KeyOf(last')])
                /\ \A k \in DOMAIN packageCache \ {KeyOf(last')} :
                       packageCache'[k] = packageCache[k]

C2_ForceRefreshBypassesCache == [][C2_RefreshStep]_vars

C2_Witness ==
    /\ last.op = "package"
    /\ last.refresh
    /\ last.invoked
    /\ last.status = 200
    /\ last.prior # NoRecord
    /\ last.body # last.prior
    /\ packageCache[KeyOf(last)] = last.body

Ecosystems == {"node", "python", "ruby"}

\* C3: when every source of the ecosystem case fails, the request writes no
\* cache entry, so that the next request without refresh researches again.
C3_AllFailedStep ==
    (Served /\ last'.invoked /\ last'.tried /\ ~last'.answered)
        => /\ packageCache' = packageCache
           /\ KeyOf(last') \notin DOMAIN packageCache

C3_DegradedNotCached == [][C3_AllFailedStep]_vars

\* C5: the cache is addressed by the name and the resolved ecosystem: with
\* the record of an "auto" request resolved to E stored, a request for the
\* same name with E is a hit; and an "auto" request that is researched and
\* resolves to E finds no record of E stored for the name.
C5_ResolvedStep ==
    (Served /\ ~last'.refresh)
        => /\ ( /\ last'.type \in Ecosystems
                /\ cacheKey(last'.name, "auto") \in DOMAIN packageCache
                /\ packageCache[cacheKey(last'.name, "auto")].type = last'.type )
              => ~last'.invoked
           /\ ( last'.type = "auto" /\ last'.invoked /\ ~last'.threw )
              => cacheKey(last'.name, last'.packageType) \notin DOMAIN packageCache

C5_KeyIsResolvedEcosystem == [][C5_ResolvedStep]_vars

(***************************************************************************)
(* Properties of the research functions.                                   *)
(***************************************************************************)
AnyAnswered(calls) == \E i \in DOMAIN calls : calls[i].out = "ok"
Sources(calls) == {calls[i].src : i \in DOMAIN calls}

\* C4: researchPackage never throws to its caller, whatever the name, the
\* type and the failures of the sources.
C4_OrchestratorNeverRaises ==
    last.op = "researchPackage" => ~last.threw

\* C6: when the registry API of the ecosystem answers with a README in its
\* payload, the adapter consults neither a repository README nor a local
\* tool during the call.
SecondarySources == {GithubReadme}
TertiarySources == {PipShow, GemInfoRemote, GemSpecification}

C6_ChainShortCircuit ==
    (last.op = "adapter" /\ last.primaryReadme)
        => Sources(last.calls) \cap (SecondarySources \cup TertiarySources) = {}

\* C7: an adapter catches the failure of a source and goes on to the next
\* source of its chain; it never throws to researchPackage.
AdapterCall ==
    \/ last.op = "adapter"
    \/ last.op = "researchPackage" /\ last.type \in Ecosystems

C7_SourceFailureCaught ==
    AdapterCall
        => /\ ~last.threw
           /\ (Len(last.calls) = 1 => last.calls[1].out = "ok")

\* C8: an adapter returns the record with only the name and an empty readme
\* exactly when every source of its chain failed.
DegradedOf(l) ==
    IF l.layer = "cli" THEN Minimal(l.name, l.type)
    ELSE [metadata |-> [name |-> l.name], readme |-> "", type |-> l.type]

C8_DegradedIffAllFailed ==
    AdapterCall
        => /\ ~AnyAnswered(last.calls) => (~last.threw /\ last.rec = DegradedOf(last))
           /\ AnyAnswered(last.calls) => (~last.threw => last.rec # DegradedOf(last))

\* C9: the probe asks npm, then pip, then gem, stops at the first that
\* answers and returns its ecosystem; of several ecosystems that would
\* answer the earliest in this order is returned.
ProbeOrder == <<NpmViewName, PipShow, GemInfo>>
ProbeResult == <<"node", "python", "ruby">>

C9_ProbeOrder ==
    last.op = "detectPackageType"
        => LET n == Len(last.calls)
           IN  /\ n \in 1..3
               /\ \A i \in 1..n : last.calls[i].src = ProbeOrder[i]
               /\ \A i \in 1..(n - 1) : last.calls[i].out # "ok"
               /\ \A i \in 1..3 :
                      ( /\ ProbeOrder[i] \in last.succeed
                        /\ \A j \in 1..(i - 1) : ProbeOrder[j] \notin last.succeed )
                      => (last.result = ProbeResult[i] /\ n = i)

C9_Witness ==
    /\ last.op = "detectPackageType"
    /\ last.succeed = {PipShow, GemInfo}
    /\ last.result = "python"
    /\ Len(last.calls) = 2

\* C10: when the three checks all fail the probe returns node, at every call.
C10_ProbeDefaultsToNode ==
    /\ (last.op = "detectPackageType" /\ last.succeed = {})
           => last.result = "node"
    /\ (last.op = "researchPackage" /\ last.type = "auto"
        /\ Len(last.probe) = 3 /\ ~AnyAnswered(last.probe))
           => last.packageType = "node"

C10_Witness ==
    /\ last.op = "detectPackageType"
    /\ last.succeed = {}
    /\ Len(last.calls) = 3
    /\ last.result = "node"

(***************************************************************************)
(* Properties of the calls in flight.                                      *)
(***************************************************************************)
\* C11: a check of the probe that errors or never responds does not keep
\* the next check from running: a call of detectPackageType always returns.
C11_ProbeEventuallyReturns ==
    (inflight # Idle /\ inflight.fn = "detectPackageType") ~> (inflight = Idle)

\* C12: every external call of a research is bounded by a timeout, so that a
\* call of an adapter or of researchPackage returns even when one source
\* never responds.
C12_ResearchEventuallyReturns ==
    (inflight # Idle /\ inflight.fn \in {"adapter", "researchPackage"})
        ~> (inflight = Idle)

\* ---------------------------------------------------------------------
\* Overlapping requests of the generated server
\*
\* A request runs without interruption up to the await of researchPackage
\* and again from the settling of that promise to its response; between the
\* two, other requests run.  inflight maps the requests that await their
\* research, numbered in the order they started, to their parameters;
\* last.written keeps, for each key, the number of the request whose record
\* the entry holds.
\* ---------------------------------------------------------------------

MaxStarted == 3

\* req.query.type || 'auto': the requests leave the type out
OverlapTypes == {"auto"}

NoneStarted ==
    [op |-> "none", key |-> "", start |-> 0, refresh |-> FALSE,
     threw |-> FALSE, written |-> EmptyObject]

InitOverlap ==
    /\ server \in Servers
    /\ packageCache = EmptyObject
    /\ disk = EmptyObject
    /\ last = NoneStarted
    /\ nreq = 0
    /\ inflight = EmptyObject

\* the entry is served: getPackageInfo returns before any await
BeginHit ==
    /\ nreq < MaxStarted
    /\ \E packageName \in Names, type \in OverlapTypes :
         LET r == getPackageInfo(packageCache, packageName, type, FALSE,
                                 [threw |-> FALSE, rec |-> NoRecord])
         IN  /\ ~r.invoked
             /\ packageCache' = r.cache
             /\ last' = [last EXCEPT !.op = "hit",
                                     !.key = cacheKey(packageName, type),
                                     !.start = nreq + 1,
                                     !.refresh = FALSE,
                                     !.threw = FALSE]
    /\ nreq' = nreq + 1
    /\ UNCHANGED <<server, disk, inflight>>

\* no entry, or refresh=true: researchPackage is called and awaited
BeginFetch ==
    /\ nreq < MaxStarted
    /\ \E packageName \in Names, type \in OverlapTypes, forceRefresh \in BOOLEAN :
         /\ forceRefresh \/ cacheKey(packageName, type) \notin DOMAIN packageCache
         /\ inflight' = [i \in DOMAIN inflight \cup {nreq + 1} |->
                            IF i = nreq + 1
                            THEN [name |-> packageName, type |-> type,
                                  refresh |-> forceRefresh]
                            ELSE inflight[i]]
         /\ last' = [last EXCEPT !.op = "fetch",
                                 !.key = cacheKey(packageName, type),
                                 !.start = nreq + 1,
                                 !.refresh = forceRefresh,
                                 !.threw = FALSE]
    /\ nreq' = nreq + 1
    /\ UNCHANGED <<server, packageCache, disk>>

\* the research of a request settles: what follows the await in
\* getPackageInfo runs, with no second look at the cache
Settle ==
    \E i \in DOMAIN inflight, x \in ServerOutcomes :
        /\ x.srv = server
        /\ x.name = inflight[i].name
        /\ x.type = inflight[i].type
        /\ LET key == cacheKey(x.name, x.type)
               r == getPackageInfo(packageCache, x.name, x.type, TRUE, x.o)
           IN  /\ packageCache' = r.cache
               /\ last' = [op |-> IF r.threw THEN "failed" ELSE "stored",
                           key |-> key, start |-> i,
                           refresh |-> inflight[i].refresh,
                           threw |-> r.threw,
                           written |-> IF r.threw THEN last.written
                                       ELSE CacheSet(last.written, key, i)]
        /\ inflight' = [j \in DOMAIN inflight \ {i} |-> inflight[j]]
        /\ UNCHANGED <<server, disk, nreq>>

NextOverlap == BeginHit \/ BeginFetch \/ Settle

SpecOverlap == InitOverlap /\ [][NextOverlap]_vars

\* ---------------------------------------------------------------------
\* The last resort of researchPythonPackage: the scrape of the project page
\*
\* The description recovered from the page is a text whose characters are
\* numbered, so that a prefix is told from any other part of it.
\* ---------------------------------------------------------------------

MaxDescription == 202

\* description.substring(0, 200)
DescriptionLimit == 200

\* '...'
Marker == <<".", ".", ".">>

Descriptions == { [i \in 1..n |-> i] : n \in 0..MaxDescription }

\* a substring that keeps the end of the text
lastOf(text, from, to) ==
    [i \in 1..(IF Len(text) < to THEN Len(text) ELSE to) |->
        text[Len(text) - (IF Len(text) < to THEN Len(text) ELSE to) + i]]

\* String.prototype.substring(from, to), positions counted from 0
substring(text, from, to) ==
    [i \in 1..((IF Len(text) < to THEN Len(text) ELSE to) - from) |->
        text[from + i]]

\* the record of the scrape fallback for a recovered description
scrapeRecord(packageName, description) ==
    Research([name |-> packageName,
              description |-> substring(description, 0, DescriptionLimit) \o Marker],
             description, "python")

InitScrape ==
    /\ server \in Servers
    /\ packageCache = EmptyObject
    /\ disk = EmptyObject
    /\ last \in { [op |-> "page", name |-> n, description |-> d,
                    rec |-> Minimal(n, "python")] :
                    n \in Names, d \in Descriptions }
    /\ nreq = 0
    /\ inflight = Idle

\* the page answered and the description of the page was matched
Scrape ==
    /\ last.op = "page"
    /\ last' = [last EXCEPT !.op = "scraped",
                            !.rec = scrapeRecord(last.name, last.description)]
    /\ UNCHANGED <<server, packageCache, disk, nreq, inflight>>

NextScrape == Scrape

SpecScrape == InitScrape /\ [][NextScrape]_vars

\* ---------------------------------------------------------------------
\* The extractors of fenced code blocks
\*
\* A text is a sequence of characters.  extractExampleCode is the command
\* line's extractor; extractExamplesFromReadme is the one of server.js.
\* The latter is written inside the template literal that generates
\* server.js, where \s and \S are escapes of the template and not of the
\* regular expression: the file that runs holds [sS] for [\s\S].
\* ---------------------------------------------------------------------

MaxBody == 2
MaxPieces == 6

\* the grave accent; a string of TLA+ cannot hold the character itself
Backtick == "GRAVE"
Fence == <<Backtick, Backtick, Backtick>>
Whitespace == {" ", "\n"}

Letters(word) ==
    CASE word = "javascript" -> <<"j", "a", "v", "a", "s", "c", "r", "i", "p", "t">>
      [] word = "js" -> <<"j", "s">>
      [] word = "typescript" -> <<"t", "y", "p", "e", "s", "c", "r", "i", "p", "t">>
      [] word = "ts" -> <<"t", "s">>
      [] word = "python" -> <<"p", "y", "t", "h", "o", "n">>
      [] word = "py" -> <<"p", "y">>
      [] word = "ruby" -> <<"r", "u", "b", "y">>
      [] word = "rb" -> <<"r", "b">>
      [] word = "json" -> <<"j", "s", "o", "n">>
      [] OTHER -> << >>

\* word stands in text at position i (positions count from 1)
At(word, text, i) ==
    /\ i >= 1
    /\ i + Len(word) - 1 <= Len(text)
    /\ \A k \in 1..Len(word) : text[i + k - 1] = word[k]

Slice(text, from, to) == [k \in 1..(to - from + 1) |-> text[from + k - 1]]

\* String.prototype.trim
trim(text) ==
    LET inked == {k \in 1..Len(text) : text[k] \notin Whitespace}
    IN  IF inked = {} THEN << >>
        ELSE Slice(text, CHOOSE k \in inked : \A j \in inked : k <= j,
                         CHOOSE k \in inked : \A j \in inked : k >= j)

\* an expression that names no language after the opening fence
NoTags(fn) == << >>

\* (?:javascript|js|typescript|ts)? and (?:javascript|js|python|py|ruby|rb)?
TagsOf(fn) ==
    IF fn = "extractExampleCode"
    THEN <<"javascript", "js", "typescript", "ts">>
    ELSE <<"javascript", "js", "python", "py", "ruby", "rb">>

\* the class after the optional tag: \s* of the command line's expression
\* (greedy) and [sS]*? of server.js (lazy, it is the captured group)
ClassOf(fn) == IF fn = "extractExampleCode" THEN Whitespace ELSE {"s", "S"}

\* the length of the longest run of characters of class from position p
RunFrom(class, text, p) ==
    LET stops == {k \in p..Len(text) : text[k] \notin class}
    IN  IF stops = {} THEN Len(text) - p + 1
        ELSE (CHOOSE k \in stops : \A j \in stops : k <= j) - p

\* the position of the first fence at or after p, 0 when there is none
FenceFrom(text, p) ==
    LET fences == {k \in p..Len(text) : At(Fence, text, k)}
    IN  IF fences = {} THEN 0 ELSE CHOOSE k \in fences : \A j \in fences : k <= j

\* an expression whose closing fence may be the end of the text
FenceFromOrEnd(fn, text, p) ==
    IF FenceFrom(text, p) # 0 THEN FenceFrom(text, p) ELSE Len(text) + 1

\* the closing fence a match reaches from position p, 0 when it reaches none
ClosingFence(fn, text, p) ==
    IF fn = "extractExampleCode"
    THEN FenceFrom(text, p)
    ELSE \* [sS]*? followed by the fence: only characters of the class before it
         LET q == p + RunFrom(ClassOf(fn), text, p)
             reached == {k \in p..q : At(Fence, text, k)}
         IN  IF reached = {} THEN 0
             ELSE CHOOSE k \in reached : \A j \in reached : k <= j

\* One attempt of codeBlockRegex at position i: the alternatives of the
\* optional tag in their order, then no tag; the first that lets the rest of
\* the expression match is the match.  [from, to] is group 1, next the
\* lastIndex the match leaves.
NoMatch == [found |-> FALSE, from |-> 0, to |-> 0, next |-> 0]
MatchAt(fn, text, i) ==
    IF ~At(Fence, text, i) THEN NoMatch
    ELSE LET tags == TagsOf(fn)
             skip(a) == IF a > Len(tags) THEN 0 ELSE Len(Letters(tags[a]))
             present(a) == a > Len(tags) \/ At(Letters(tags[a]), text, i + 3)
             \* where group 1 starts under alternative a
             start(a) ==
                 IF fn = "extractExampleCode"
                 THEN i + 3 + skip(a) + RunFrom(Whitespace, text, i + 3 + skip(a))
                 ELSE i + 3 + skip(a)
             good == {a \in 1..(Len(tags) + 1) :
                         present(a) /\ ClosingFence(fn, text, start(a)) # 0}
         IN  IF good = {} THEN NoMatch
             ELSE LET a == CHOOSE x \in good : \A y \in good : x <= y
                      close == ClosingFence(fn, text, start(a))
                  IN  [found |-> TRUE, from |-> start(a), to |-> close - 1,
                       next |-> close + 3]

\* codeBlockRegex.exec(readme) with lastIndex: the leftmost match
exec(fn, text, lastIndex) ==
    LET hits == {i \in lastIndex..Len(text) : MatchAt(fn, text, i).found}
    IN  IF hits = {} THEN NoMatch
        ELSE MatchAt(fn, text, CHOOSE i \in hits : \A j \in hits : i <= j)

\* while ((match = codeBlockRegex.exec(readme)) !== null) { ... }
RECURSIVE Matches(_, _, _)
Matches(fn, text, lastIndex) ==
    LET match == exec(fn, text, lastIndex)
    IN  IF ~match.found THEN << >>
        ELSE LET group == trim(Slice(text, match.from, match.to))
             IN  (IF Len(group) > 0 THEN <<group>> ELSE << >>)
                     \o Matches(fn, text, match.next)

extractExampleCode(readme) == Matches("extractExampleCode", readme, 1)

\* if (!readme) return [];
extractExamplesFromReadme(readme) ==
    IF readme = << >> THEN << >>
    ELSE Matches("extractExamplesFromReadme", readme, 1)

\* the texts the extractors are applied to: a body wrapped in one fence with
\* a language tag, and the documents made of a few pieces
LanguageTags == {"", "js", "python", "ruby", "json", "typescript"}
BodyChars == {"s", "x", " ", "\n"}
Bodies == UNION { [1..n -> BodyChars] : n \in 0..MaxBody }
Wrap(lang, s) == Fence \o Letters(lang) \o <<"\n">> \o s \o <<"\n">> \o Fence
Pieces == {Fence, Letters("js"), <<"s">>, <<"\n">>}

RECURSIVE Documents(_)
Documents(n) ==
    IF n = 0 THEN {<< >>}
    ELSE LET shorter == Documents(n - 1)
         IN  shorter \cup {d \o p : d \in shorter, p \in Pieces}

Inputs ==
    { [text |-> Wrap(lang, s), wrapped |-> TRUE, lang |-> lang, s |-> s] :
        lang \in LanguageTags, s \in Bodies }
    \cup { [text |-> d, wrapped |-> FALSE, lang |-> "", s |-> << >>] :
             d \in Documents(MaxPieces) }

InitExtract ==
    /\ server \in Servers
    /\ packageCache = EmptyObject
    /\ disk = EmptyObject
    /\ last \in { [op |-> "text", out |-> << >>] @@ x : x \in Inputs }
    /\ nreq = 0
    /\ inflight = Idle

ExtractExampleCode ==
    /\ last.op = "text"
    /\ last' = [last EXCEPT !.op = "extractExampleCode",
                            !.out = extractExampleCode(last.text)]
    /\ UNCHANGED <<server, packageCache, disk, nreq, inflight>>

ExtractExamplesFromReadme ==
    /\ last.op = "text"
    /\ last' = [last EXCEPT !.op = "extractExamplesFromReadme",
                            !.out = extractExamplesFromReadme(last.text)]
    /\ UNCHANGED <<server, packageCache, disk, nreq, inflight>>

NextExtract == ExtractExampleCode \/ ExtractExamplesFromReadme

SpecExtract == InitExtract /\ [][NextExtract]_vars

\* ---------------------------------------------------------------------
\* The Node research of the command line on a payload of the registry
\*
\* The payload carries its name, its version and the text of its README;
\* it names no repository.  The record keeps a token for the README, the
\* examples are extracted from its text.
\* ---------------------------------------------------------------------

Versions == {"1.3.0", "2.0.0"}

LeftPadExample ==
    <<"l", "e", "f", "t", "P", "a", "d", "(", "'", "1", "'", ",", "2", ",",
      "'", "0", "'", ")">>
LeftPadReadme ==
    Fence \o Letters("js") \o <<"\n">> \o LeftPadExample \o <<"\n">> \o Fence

\* the README of the scenario, a body in one fence under every tag, no
\* README, and a fence that is never closed
RegistryReadmes ==
    {LeftPadReadme, << >>, Fence \o LeftPadExample}
    \cup {Wrap(lang, s) : lang \in LanguageTags, s \in Bodies}

RegistryPayloads ==
    { [name |-> n, version |-> v, readme |-> r] :
        n \in Names, v \in Versions, r \in RegistryReadmes }

\* researchNpmPackage once the registry has answered with packageData
researchNpmPackageData(packageData) ==
    LET reg == [src |-> Registry, out |-> "ok"]
        \* if (packageData.readme) ... else: no repository, readme stays ''
        readme == IF packageData.readme # << >> THEN packageData.readme
                  ELSE << >>
        exampleCode == extractExampleCode(readme)
        info == [Fields(RegistryKeys, "registry", packageData.name)
                    EXCEPT !.version = packageData.version]
    IN  [threw |-> FALSE,
         rec |-> Research(info,
                          IF readme # << >> THEN ReadmeFrom(Registry) ELSE "",
                          "node"),
         calls |-> <<reg>>, primaryReadme |-> readme # << >>,
         exampleCode |-> exampleCode, readmeFenced |-> exampleCode # << >>]

InitNode ==
    /\ server \in Servers
    /\ packageCache = EmptyObject
    /\ disk = EmptyObject
    /\ last \in { [op |-> "payload", packageData |-> d,
                   rec |-> Minimal(d.name, "node"),
                   exampleCode |-> NoExampleCode] : d \in RegistryPayloads }
    /\ nreq = 0
    /\ inflight = Idle

\* researchPackage(name, ProjectType.NODE) against that payload
ResearchNode ==
    /\ last.op = "payload"
    /\ \E npmResult \in {researchNpmPackageData(last.packageData)},
          writable \in BOOLEAN :
           LET r == cliResearchPackage(disk, last.packageData.name, "node",
                                       npmResult, writable)
           IN  /\ disk' = r.files
               /\ last' = [last EXCEPT !.op = "research node",
                                       !.rec = r.rec,
                                       !.exampleCode = r.exampleCode]
    /\ UNCHANGED <<server, packageCache, nreq, inflight>>

NextNode == ResearchNode

SpecNode == InitNode /\ [][NextNode]_vars

\* ---------------------------------------------------------------------
\* The install command
\*
\* gpm install [packages...] installs the packages one after another with
\* the package manager of the flag (--npm, --pip, --gem) or of the detected
\* project type; after an install that succeeded it researches the package
\* and creates its MCP server, unless --no-mcp was given.  The run keeps
\* the log of the calls it made and the packages whose server was written.
\* ---------------------------------------------------------------------

MaxPackages == 2

Flags == {"npm", "pip", "gem", "auto"}

\* the sequences of at most n package names
RECURSIVE PackageLists(_)
PackageLists(n) ==
    IF n = 0 THEN {<< >>}
    ELSE LET shorter == PackageLists(n - 1)
         IN  shorter \cup {l \o <<p>> : l \in shorter, p \in Names}

\* the type the packages are installed and researched as
TypeOf(flag, projectType) ==
    CASE flag = "npm" -> "node"
      [] flag = "pip" -> "python"
      [] flag = "gem" -> "ruby"
      [] OTHER -> projectType

\* install for node and for an unknown type, pythonInstall, rubyInstall
InstallerOf(type) ==
    CASE type = "python" -> "pythonInstall"
      [] type = "ruby" -> "rubyInstall"
      [] OTHER -> "install"

\* pythonInstall resolves to false on an error of pip, to true otherwise,
\* and never rejects
pythonInstallResults == BOOLEAN

\* install and rubyInstall, as the loops bind their result: a boolean
installResults == BOOLEAN

InstallResults(installer) ==
    IF installer = "pythonInstall" THEN pythonInstallResults
    ELSE installResults

CommandNames == {"install", "add"}

Commands ==
    { [command |-> c, flag |-> f, projectType |-> t, options |-> [mcp |-> m],
       packages |-> l] :
        c \in CommandNames, f \in Flags, t \in ProjectTypes, m \in BOOLEAN,
        l \in PackageLists(MaxPackages) }

\* the type a command installs and researches as: install follows the flag,
\* add hands the packages to installByProjectType whatever the flag
CommandType(command, flag, projectType) ==
    IF command = "add" THEN projectType ELSE TypeOf(flag, projectType)

\* a condition that leaves the result of the install out
mcpNotDisabled(success, options) == options.mcp # FALSE

\* if (success && options.mcp !== false)
successAndMcp(success, options) == success /\ options.mcp # FALSE

InitInstall ==
    /\ server = "basic"
    /\ packageCache = EmptyObject
    /\ disk = EmptyObject
    /\ last \in { [op |-> "install command", i |-> 1, step |-> "install",
                   log |-> << >>, servers |-> {}] @@ c :
                   c \in {x \in Commands :
                            \/ x.command = "add"
                            \/ x.flag = "auto"
                            \/ x.projectType = "node"} }
    /\ nreq = 0
    /\ inflight = Idle

Type == CommandType(last.command, last.flag, last.projectType)

Event(call, i, pkg, ok) ==
    [call |-> call, type |-> Type, i |-> i, pkg |-> pkg, ok |-> ok]

\* the step after the body of the loop for package i
NextPackage(run, log) ==
    [run EXCEPT !.log = log, !.i = run.i + 1, !.step = "install",
                !.op = IF run.i + 1 > Len(run.packages)
                       THEN "done" ELSE "install command"]

\* install([], options): no package was named
InstallProject ==
    /\ last.op = "install command"
    /\ last.command = "install"
    /\ last.packages = << >>
    /\ \E success \in InstallResults(InstallerOf(Type)) :
           last' = [last EXCEPT !.op = "done",
                                !.log = Append(@, Event(InstallerOf(Type), 0,
                                                        "", success))]
    /\ UNCHANGED <<server, packageCache, disk, nreq, inflight>>

\* add without a package: 'No packages specified'
AddNothing ==
    /\ last.op = "install command"
    /\ last.command = "add"
    /\ last.packages = << >>
    /\ last' = [last EXCEPT !.op = "done"]
    /\ UNCHANGED <<server, packageCache, disk, nreq, inflight>>

\* success = await install([pkg], options)
InstallPackage ==
    /\ last.op = "install command"
    /\ last.step = "install"
    /\ last.i <= Len(last.packages)
    /\ \E success \in InstallResults(InstallerOf(Type)) :
           LET log == Append(last.log,
                             Event(InstallerOf(Type), last.i,
                                   last.packages[last.i], success))
           IN  last' = IF successAndMcp(success, last.options)
                       THEN [last EXCEPT !.log = log, !.step = "research"]
                       ELSE NextPackage(last, log)
    /\ UNCHANGED <<server, packageCache, disk, nreq, inflight>>

\* const research = await researchPackage(pkg, projectType)
InstallResearch ==
    /\ last.op = "install command"
    /\ last.step = "research"
    /\ \E x \in CliOutcomes, writable \in BOOLEAN :
           /\ x.name = last.packages[last.i]
           /\ x.type = Type
           /\ LET r == cliResearchPackage(disk, x.name, x.type, x.r, writable)
              IN  /\ disk' = r.files
                  /\ last' = [last EXCEPT
                                 !.log = Append(@, Event("researchPackage",
                                                         last.i, x.name,
                                                         ~r.caught)),
                                 !.step = "create"]
    /\ UNCHANGED <<server, packageCache, nreq, inflight>>

\* await createMcpServer(pkg, research): a failure is caught and reported
InstallCreateMcpServer ==
    /\ last.op = "install command"
    /\ last.step = "create"
    /\ \E created \in BOOLEAN :
           LET pkg == last.packages[last.i]
               log == Append(last.log,
                             Event("createMcpServer", last.i, pkg, created))
           IN  last' = [NextPackage(last, log) EXCEPT
                          !.servers = IF created THEN @ \cup {pkg} ELSE @]
    /\ UNCHANGED <<server, packageCache, disk, nreq, inflight>>

NextInstall ==
    \/ InstallProject
    \/ AddNothing
    \/ InstallPackage
    \/ InstallResearch
    \/ InstallCreateMcpServer

SpecInstall == InitInstall /\ [][NextInstall]_vars

\* ---------------------------------------------------------------------
\* The strings a client can send
\*
\* req.params.packageName is any segment of the path and req.query.type any
\* string: neither is validated before getPackageInfo joins them into the
\* key.  The run remembers which request stored the entry of each key.
\* ---------------------------------------------------------------------

SentNames == {"pkg", "pkg:beta"}
SentTypes == {"auto", "node", "beta:node"}

SentOutcomes ==
    UNION { { [srv |-> srv, name |-> n, type |-> t,
               o |-> Digest(researchOn(srv, n, t, w))] : w \in Conditions }
            : srv \in Servers, n \in SentNames, t \in SentTypes }

Pair(packageName, type) == [name |-> packageName, type |-> type]

InitSent ==
    /\ server \in Servers
    /\ packageCache = EmptyObject
    /\ disk = EmptyObject
    /\ last = [op |-> "none", name |-> "", type |-> "", refresh |-> FALSE,
               status |-> 0, body |-> NoRecord, invoked |-> FALSE,
               storedBy |-> EmptyObject]
    /\ nreq = 0
    /\ inflight = Idle

\* GET /api/package/:packageName?type=&refresh= with the strings as sent
ApiPackageSent ==
    /\ nreq < MaxRequests
    /\ \E x \in SentOutcomes, forceRefresh \in BOOLEAN :
         /\ x.srv = server
         /\ LET r == getPackageInfo(packageCache, x.name, x.type,
                                    forceRefresh, x.o)
                key == cacheKey(x.name, x.type)
            IN  /\ packageCache' = r.cache
                /\ last' = [op |-> "package", name |-> x.name,
                            type |-> x.type, refresh |-> forceRefresh,
                            status |-> IF r.threw THEN 500 ELSE 200,
                            body |-> IF r.threw
                                     THEN ErrorBody(
                                              "Failed to get package info for ",
                                              x.name)
                                     ELSE r.result,
                            invoked |-> r.invoked,
                            storedBy |->
                                IF r.invoked /\ ~r.threw
                                THEN CacheSet(last.storedBy, key,
                                              Pair(x.name, x.type))
                                ELSE last.storedBy]
    /\ nreq' = nreq + 1
    /\ UNCHANGED <<server, disk, inflight>>

NextSent == ApiPackageSent

SpecSent == InitSent /\ [][NextSent]_vars

\* ---------------------------------------------------------------------
\* detectProjectType
\*
\* A directory is whether it can be read, the marker files it holds and the
\* number of its entries that end in .py, .js, .ts and .rb.
\* ---------------------------------------------------------------------

MaxFiles == 2
MaxMarkers == 2

NodeMarkers == {"package.json", "package-lock.json", "node_modules"}
PythonMarkers ==
    {"requirements.txt", "setup.py", "Pipfile", "pyproject.toml",
     "poetry.lock", ".venv", "venv"}
RubyMarkers == {"Gemfile", "Gemfile.lock", ".ruby-version", ".bundle"}

Directories ==
    { [readable |-> r, markers |-> m, py |-> py, js |-> js, ts |-> ts,
       rb |-> rb] :
        r \in BOOLEAN,
        m \in {x \in SUBSET (NodeMarkers \cup PythonMarkers \cup RubyMarkers) :
                  Cardinality(x) <= MaxMarkers},
        py \in 0..MaxFiles, js \in 0..MaxFiles, ts \in 0..MaxFiles,
        rb \in 0..MaxFiles }

\* files.includes(a) || files.includes(b) || ...
includesAny(directory, names) == directory.markers \cap names # {}

detectProjectType(directory) ==
    LET pyFiles == directory.py
        jsFiles == directory.js + directory.ts
        rbFiles == directory.rb
    IN  IF ~directory.readable THEN "unknown"
        ELSE IF includesAny(directory, NodeMarkers) THEN "node"
        ELSE IF includesAny(directory, PythonMarkers) THEN "python"
        ELSE IF includesAny(directory, RubyMarkers) THEN "ruby"
        ELSE IF pyFiles > jsFiles /\ pyFiles > rbFiles THEN "python"
        ELSE IF rbFiles > jsFiles /\ rbFiles > pyFiles THEN "ruby"
        ELSE IF jsFiles > 0 THEN "node"
        ELSE "unknown"

InitDetect ==
    /\ server = "basic"
    /\ packageCache = EmptyObject
    /\ disk = EmptyObject
    /\ last \in { [op |-> "directory", directory |-> d, result |-> "none"] :
                   d \in Directories }
    /\ nreq = 0
    /\ inflight = Idle

DetectProjectType ==
    /\ last.op = "directory"
    /\ last' = [last EXCEPT !.op = "detectProjectType",
                            !.result = detectProjectType(last.directory)]
    /\ UNCHANGED <<server, packageCache, disk, nreq, inflight>>

NextDetect == DetectProjectType

SpecDetect == InitDetect /\ [][NextDetect]_vars

\* ---------------------------------------------------------------------
\* Properties of the examples
\* ---------------------------------------------------------------------

\* C13: in every record research returns, the examples are the extractor
\* applied to that record's README: they are never filled or left empty
\* independently of it.
C13_ExamplesDerivedFromReadme ==
    last.op = "cli researchPackage" =>
        last.exampleCode =
            IF last.readmeFenced
            THEN <<"example in " \o last.rec.readme>> ELSE << >>

Extracted == last.op \in {"extractExampleCode", "extractExamplesFromReadme"}

\* C14: a body without fences, wrapped in a fence with any language tag (or
\* none), comes back as the one trimmed body, or as nothing when the trimmed
\* body is empty; the tag neither filters the block nor enters the content.
C14_FenceRoundTrip ==
    (Extracted /\ last.wrapped) =>
        last.out = IF trim(last.s) = << >> THEN << >> ELSE <<trim(last.s)>>

\* The blocks of a document as the specification reads them: a fence opens a
\* block, the rest of its line is the language tag, the next fence closes it.
\* ok is false when an opening line holds something else than a known tag.
RECURSIVE FencedBlocks(_, _)
FencedBlocks(text, from) ==
    LET open == FenceFrom(text, from)
        close == IF open = 0 THEN 0 ELSE FenceFrom(text, open + 3)
    IN  IF close = 0 THEN [ok |-> TRUE, blocks |-> << >>]
        ELSE LET breaks == {k \in (open + 3)..(close - 1) : text[k] = "\n"}
                 eol == IF breaks = {} THEN close
                        ELSE CHOOSE k \in breaks : \A j \in breaks : k <= j
                 tag == Slice(text, open + 3, eol - 1)
                 content == trim(Slice(text, eol, close - 1))
                 rest == FencedBlocks(text, close + 3)
             IN  [ok |-> rest.ok /\ \E l \in LanguageTags : tag = Letters(l),
                  blocks |-> (IF content = << >> THEN << >> ELSE <<content>>)
                                 \o rest.blocks]

\* C15: the extractors return the trimmed content of each fenced block in
\* the order of the document, leave out exactly the blocks whose trimmed
\* content is empty, keep duplicates, and return nothing for a text without
\* fences.
C15_BlocksInDocumentOrder ==
    (Extracted /\ FencedBlocks(last.text, 1).ok) =>
        last.out = FencedBlocks(last.text, 1).blocks

\* the fences of a text, counted from the left without overlap
RECURSIVE CountFences(_, _)
CountFences(text, from) ==
    IF FenceFrom(text, from) = 0 THEN 0
    ELSE 1 + CountFences(text, FenceFrom(text, from) + 3)

\* C16: the extractors return on every text, and a fence that is not closed
\* contributes no block: every block returned has used two fences.
C16_UnclosedFenceYieldsNoBlock ==
    Extracted => 2 * Len(last.out) <= CountFences(last.text, 1)

C16_Witness ==
    /\ Extracted
    /\ CountFences(last.text, 1) = 3
    /\ Len(last.out) = 1

\* ---------------------------------------------------------------------
\* Properties of the order of the sources
\* ---------------------------------------------------------------------

\* source s was called before position i of the calls, and did not answer
FailedBefore(calls, i, s) ==
    /\ \E j \in 1..(i - 1) : calls[j].src = s
    /\ \A j \in 1..(i - 1) : calls[j].src = s => calls[j].out # "ok"

\* every call of source later comes after the failure of each source of earlier
OnlyAfterFailure(calls, later, earlier) ==
    \A i \in DOMAIN calls :
        calls[i].src = later => \A s \in earlier : FailedBefore(calls, i, s)

PythonCall ==
    \/ last.op = "adapter" /\ last.type = "python"
    \/ last.op = "researchPackage" /\ last.packageType = "python"

\* C17: the Python adapter goes from the JSON endpoint of PyPI to pip show
\* and then to the scrape of the project page: pip show runs only after the
\* endpoint failed, the scrape only after both failed, and no later source
\* is called once an earlier one answered.
C17_PythonChainOrder ==
    PythonCall =>
        /\ OnlyAfterFailure(last.calls, PipShow, {PypiJson})
        /\ OnlyAfterFailure(last.calls, PypiPage, {PypiJson, PipShow})

RubyCall ==
    \/ last.op = "adapter" /\ last.type = "ruby"
    \/ last.op = "researchPackage" /\ last.packageType = "ruby"

LocalGemTools == {GemInfo, GemInfoRemote, GemSpecification, GemSpecYaml,
                  GemWhich, GemSpecDescr}

\* C18: the Ruby adapter asks the JSON endpoint of RubyGems first and runs
\* the local gem tool only after the endpoint failed; when the endpoint
\* answered, the tool is not run.
C18_RubyChainOrder ==
    RubyCall =>
        \A tool \in LocalGemTools :
            OnlyAfterFailure(last.calls, tool, {RubygemsApi})

\* the research of the deeper server that fetches a README from a repository
ReadmeFetch ==
    \/ last.op = "fetchReadme"
    \/ /\ last.op = "researchPackage"
       /\ last.layer = "deep"
       /\ last.packageType \in {"python", "ruby"}

ReadmeReturned ==
    IF last.op = "fetchReadme" THEN last.readme ELSE last.rec.readme

ReadmeFilenames ==
    IF last.packageType = "python" THEN PythonReadmeFilenames
    ELSE RubyReadmeFilenames

\* the requests for README files among the calls, in the order made
ReadmeRequests ==
    SelectSeq(last.calls, LAMBDA c : c.src \in RawFiles(ReadmeFilenames))

\* C19: the README of a repository is asked under the filenames of a fixed
\* list, in its order; the first request that resolves ends the loop and its
\* text is the README returned, and a request that fails is followed by the
\* request for the next filename.
C19_ReadmeFilenamesInOrder ==
    ReadmeFetch =>
        LET asked == ReadmeRequests
        IN  /\ Len(asked) <= Len(ReadmeFilenames)
            /\ \A k \in DOMAIN asked : asked[k].src = RawFile(ReadmeFilenames[k])
            /\ \A k \in DOMAIN asked :
                   IF asked[k].out = "ok"
                   THEN k = Len(asked) /\ ReadmeReturned = ReadmeFrom("github")
                   ELSE k < Len(ReadmeFilenames) => k < Len(asked)

C19_Witness ==
    /\ ReadmeFetch
    /\ Len(ReadmeRequests) = 3
    /\ ReadmeRequests[1].out = "fail"
    /\ ReadmeRequests[2].out = "non200"
    /\ ReadmeRequests[3].out = "ok"
    /\ ReadmeReturned = ReadmeFrom("github")

\* ---------------------------------------------------------------------
\* Properties of malformed answers
\* ---------------------------------------------------------------------

Malformed(calls) == {i \in DOMAIN calls : calls[i].out = "malformed"}

\* C20: a source whose answer does not parse, or lacks the expected object,
\* is treated like a source that is unavailable: the chain goes on to its
\* next source and the research does not fail.
C20_MalformedIsUnavailable ==
    (AdapterCall /\ Malformed(last.calls) # {}) =>
        /\ ~last.threw
        /\ \A i \in Malformed(last.calls) : i < Len(last.calls)

\* ---------------------------------------------------------------------
\* Properties of overlapping requests
\* ---------------------------------------------------------------------

Awaiting(key) ==
    {i \in DOMAIN inflight : cacheKey(inflight[i].name, inflight[i].type) = key}

OverlapKeys == {cacheKey(n, t) : n \in Names, t \in OverlapTypes}

\* C21: while a key has no entry, at most one research for it is awaited: a
\* second request for the key starts no second fetch.
C21_AtMostOneFetchPerKey ==
    \A key \in OverlapKeys \ DOMAIN packageCache :
        Cardinality(Awaiting(key)) <= 1

\* C22: a write of the cache for one key leaves the presence and the record
\* of every other key as they were, however the requests interleave.
C22_NoCrossKeyInterference ==
    [][\A key \in DOMAIN packageCache \cup DOMAIN packageCache' :
          key # last'.key =>
              /\ key \in DOMAIN packageCache
              /\ key \in DOMAIN packageCache'
              /\ packageCache'[key] = packageCache[key]]_vars

C22_Witness ==
    /\ last.op = "stored"
    /\ inflight # EmptyObject
    /\ Cardinality(DOMAIN packageCache) = 2

\* C23: an entry of the cache is never removed: a key that has an entry has
\* one in every later state, after failed and successful requests alike.
C23_NoEviction ==
    [][DOMAIN packageCache \subseteq DOMAIN packageCache']_vars

C23_Witness ==
    /\ last.op = "failed"
    /\ ~last.refresh
    /\ last.key \in DOMAIN packageCache

\* C29: when the research of getPackageInfo throws, the cache is left as it
\* was: no entry is created for the key, and under forceRefresh the entry
\* stored before is retained.
C29_ThrowLeavesCache ==
    [][last'.op = "failed" => packageCache' = packageCache]_vars

C29_Witness ==
    /\ last.op = "failed"
    /\ last.refresh
    /\ last.key \in DOMAIN last.written
    /\ last.written[last.key] < last.start
    /\ last.key \in DOMAIN packageCache

\* C30: the entry of a key never goes back: once the record of a request
\* is stored, no request that started earlier replaces it.
C30_EntryNeverRegresses ==
    [][(last'.op = "stored" /\ last'.key \in DOMAIN last.written)
          => last.written[last'.key] <= last'.start]_vars

\* ---------------------------------------------------------------------
\* Properties of the records
\* ---------------------------------------------------------------------

\* the metadata object of the record a research returned
MetadataOf(l) == IF l.layer = "cli" THEN l.rec.packageInfo ELSE l.rec.metadata

\* C24: every record research returns, on a success, a fallback or a
\* failure path, carries a package name that is not empty.
C24_NameNeverEmpty ==
    (AdapterCall /\ ~last.threw) =>
        /\ "name" \in DOMAIN MetadataOf(last)
        /\ MetadataOf(last).name # ""

\* the values the sources that answered a call of an adapter can supply
SuppliedBy(src) ==
    CASE src = Registry -> "registry"
      [] src = PypiJson -> "pypi"
      [] src = PipShow -> "pip"
      [] src = GemInfoRemote -> "gem info"
      [] src = GemSpecification -> "gem specification"
      [] src = RubygemsApi -> "rubygems"
      [] OTHER -> "nothing"

Supplied(l) ==
    {l.name}
        \cup {SuppliedBy(l.calls[i].src) \o ":" \o k :
                 i \in {j \in DOMAIN l.calls : l.calls[j].out = "ok"},
                 k \in DOMAIN l.rec.packageInfo}
        \cup (IF l.rec.readme = ReadmeFrom(PypiPage)
              THEN {"first 200 characters of " \o ReadmeFrom(PypiPage) \o "..."}
              ELSE {})

\* C25: the metadata of a record holds no fabricated value: a field has a
\* value only when a source that was consulted supplied it; when the scrape
\* of the Python page recovers no description, the record has none.
C25_NoFabricatedMetadata ==
    (last.op = "adapter" /\ ~last.threw) =>
        \A k \in DOMAIN last.rec.packageInfo :
            last.rec.packageInfo[k] \in Supplied(last)

\* C26: in the scrape of the Python page, the description of the metadata is
\* the recovered description cut to its first 200 characters with the
\* marker appended, whatever the length of the recovered text.
C26_DescriptionTruncated ==
    last.op = "scraped" =>
        LET d == last.description
            kept == IF Len(d) < 200 THEN Len(d) ELSE 200
            stored == last.rec.packageInfo.description
        IN  /\ Len(stored) = kept + 3
            /\ \A i \in 1..kept : stored[i] = d[i]
            /\ \A i \in 1..3 : stored[kept + i] = "."

C26_Witness ==
    /\ last.op = "scraped"
    /\ Len(last.description) > 200
    /\ Len(last.rec.packageInfo.description) = 203

\* C27: when the registry returns a payload with name, version V and README
\* R, research(name, node) returns a record whose version is V and whose
\* examples are the extractor's result on R; for left-pad at 1.3.0 with the
\* README of one js block the examples are the one line of that block.
C27_NodeEndToEnd ==
    last.op = "research node" =>
        /\ last.rec.packageInfo.name = last.packageData.name
        /\ last.rec.packageInfo.version = last.packageData.version
        /\ last.exampleCode = extractExampleCode(last.packageData.readme)
        /\ last.packageData.readme = Wrap("js", LeftPadExample) =>
               last.exampleCode = <<LeftPadExample>>

C27_Witness ==
    /\ last.op = "research node"
    /\ last.packageData =
           [name |-> "left-pad", version |-> "1.3.0", readme |-> LeftPadReadme]
    /\ last.rec.packageInfo.version = "1.3.0"
    /\ last.exampleCode = <<LeftPadExample>>
    /\ "left-pad" \in DOMAIN disk

InstallRun == last.op \in {"install command", "done"} /\ "log" \in DOMAIN last

Installers == {"install", "pythonInstall", "rubyInstall"}

\* the log holds at position k the call of the given name for package i
Called(call, i, k) ==
    /\ k \in 1..Len(last.log)
    /\ last.log[k].call = call
    /\ last.log[k].i = i

C31_KeyInjective ==
    (last.op = "package" /\ ~last.invoked) =>
        last.storedBy[cacheKey(last.name, last.type)]
            = Pair(last.name, last.type)

\* ---------------------------------------------------------------------
\* Properties of the calls of one request
\* ---------------------------------------------------------------------

\* C32: within one call of researchPackage of the deeper server every
\* source (an endpoint, a query of a local tool for the package) is invoked
\* at most once, on every path through the chain.
C32_SourceAtMostOnce ==
    (last.op = "researchPackage" /\ last.layer = "deep") =>
        \A i, j \in DOMAIN last.calls :
            last.calls[i].src = last.calls[j].src => i = j

\* ---------------------------------------------------------------------
\* Properties of the saved research
\* ---------------------------------------------------------------------

\* every source the call of the command line's researchPackage asked failed
AllSourcesFailed(l) ==
    /\ l.op = "cli researchPackage"
    /\ \A i \in DOMAIN l.calls : l.calls[i].out # "ok"

\* C33: the command line's researchPackage writes under .gpm only results
\* that are not degraded: when every source failed, for any of the three
\* ecosystems, nothing is written for the package.
C33_NothingSavedWhenDegraded ==
    [][AllSourcesFailed(last') => disk' = disk]_vars

\* C34: a failure while saving the research does not change what
\* researchPackage returns: it returns the record it returns when the save
\* succeeds, and nothing is thrown to the caller.
C34_SaveFailureIgnored ==
    [][(last'.op = "cli researchPackage" /\ ~last'.writable) =>
          /\ ~last'.threw
          /\ \E x \in CliOutcomes :
                /\ x.name = last'.name
                /\ x.type = last'.type
                /\ x.r.calls = last'.calls
                /\ LET saved == cliResearchPackage(disk, x.name, x.type,
                                                   x.r, TRUE)
                   IN  /\ saved.rec = last'.rec
                       /\ saved.exampleCode = last'.exampleCode
                       /\ saved.caught = last'.caught]_vars

\* a full record returned although nothing could be written
C34_Witness ==
    /\ last.op = "cli researchPackage"
    /\ ~last.writable
    /\ ~last.caught
    /\ last.rec # Minimal(last.name, last.type)
    /\ last.rec.readme # ""
    /\ last.name \notin DOMAIN disk

\* ---------------------------------------------------------------------
\* Properties of the add command
\* ---------------------------------------------------------------------

\* C35: add is an alias of install: for every list of packages that is not
\* empty and every set of options, the overrides --npm, --pip and --gem
\* included, add runs the package manager install runs and researches the
\* packages as install does.
C35_AddIsInstall ==
    (InstallRun /\ last.command = "add" /\ last.packages # << >>) =>
        \A k \in 1..Len(last.log) :
            LET e == last.log[k]
                type == TypeOf(last.flag, last.projectType)
            IN  /\ e.call \in Installers => e.call = InstallerOf(type)
                /\ e.call = "researchPackage" => e.type = type

\* ---------------------------------------------------------------------
\* Properties of the detection of the project type
\* ---------------------------------------------------------------------

\* the number of source files of an ecosystem in a directory
SourceFiles(directory, type) ==
    CASE type = "node" -> directory.js + directory.ts
      [] type = "python" -> directory.py
      [] type = "ruby" -> directory.rb

\* C36: the markers of Node win over those of Python, which win over those
\* of Ruby; without markers the result is never an ecosystem with strictly
\* fewer source files in the directory than another ecosystem; a directory
\* that cannot be read gives unknown.
C36_FixedPriority ==
    last.op = "detectProjectType" =>
        LET d == last.directory
        IN  IF ~d.readable THEN last.result = "unknown"
            ELSE IF includesAny(d, NodeMarkers) THEN last.result = "node"
            ELSE IF includesAny(d, PythonMarkers) THEN last.result = "python"
            ELSE IF includesAny(d, RubyMarkers) THEN last.result = "ruby"
            ELSE last.result \in Ecosystems =>
                     \A other \in Ecosystems :
                         SourceFiles(d, last.result) >= SourceFiles(d, other)

====
